---- MODULE Spec2Model ----
(***************************************************************************)
(* Model of the autoblogger orchestration core:                            *)
(*   - ManagerAgent.start_workflow / _execute_workflow (manager_agent.py)  *)
(*   - ContentCheckerAgent scoring and decision (content_checker_agent.py) *)
(*   - BaseAgent.retry_with_backoff / is_transient_error (base_agent.py)   *)
(*   - TopicDiscoveryAgent._select_unique_topic (topic_discovery_agent.py) *)
(***************************************************************************)
EXTENDS Integers, Sequences, FiniteSets, TLC

VARIABLES
    \* ---- one run of ManagerAgent.start_workflow -------------------------
    pc,            \* position of the run inside start_workflow
    stage,         \* index (1..4) of the stage the run is at
    item,          \* the workflow record in the blog-workflow-state table
    statusLog,     \* every status value written to the record, in order
    started,       \* stages whose agent was constructed in this run
    notifyLog,     \* outcomes of the _send_approval_email calls of this run
    metricsLog,    \* outcomes of the MetricsCollector calls of this run
    failedAt,      \* 0, or the stage whose raise / non-success result ended the run
    validation,    \* validation_result of the checker stage (NoVerdict before)
    checked,       \* what happened inside the checker stage (NoChecked before)
    result,        \* value returned by start_workflow (NoResult before / on raise)
    \* ---- BaseAgent.retry_with_backoff ----------------------------------
    rb,
    \* ---- BaseAgent.is_transient_error ----------------------------------
    te,
    \* ---- TopicDiscoveryAgent._select_unique_topic ----------------------
    ts,
    \* ---- TopicDiscoveryAgent._cleanup_stale_workflows -------------------
    sw,
    \* ---- blog_agent.approval_handler ------------------------------------
    ah,
    \* ---- triggers: manual_trigger_handler, ManagerAgent.start_workflow --
    tr,
    \* ---- concurrent update_item calls on one record ---------------------
    cu,
    \* ---- successive workflows on one table (topic deduplication) --------
    dd,
    \* ---- ContentCheckerAgent: one check or the decision on its own ----
    cc,
    \* ---- multi_agent_workflow_handler around one run ------------------
    hd,
    \* ---- ManagerAgent.handle_agent_error calls on one record ----------
    he

wfVars ==
    <<pc, stage, item, statusLog, started, notifyLog, metricsLog, failedAt,
      validation, checked, result>>
extVars == <<sw, ah, tr, cu, dd, cc, hd, he>>
vars == <<wfVars, rb, te, ts, extVars>>

(***************************************************************************)
(* WorkflowState (manager_agent.py:18-35)                                  *)
(***************************************************************************)
INITIALIZED == "initialized"
DISCOVERING_TOPIC == "discovering_topic"
TOPIC_SELECTED == "topic_selected"
RESEARCHING == "researching"
RESEARCH_COMPLETE == "research_complete"
WRITING == "writing"
DRAFT_COMPLETE == "draft_complete"
CHECKING == "checking"
APPROVED == "approved"
NEEDS_REVISION == "needs_revision"
REJECTED == "rejected"
EMAIL_SENT == "email_sent"
PUBLISHED == "published"
DECLINED == "declined"
FAILED == "failed"

WorkflowState ==
    { INITIALIZED, "cleaning", DISCOVERING_TOPIC, TOPIC_SELECTED, RESEARCHING,
      RESEARCH_COMPLETE, WRITING, DRAFT_COMPLETE, CHECKING, APPROVED,
      NEEDS_REVISION, REJECTED, EMAIL_SENT, PUBLISHED, DECLINED, FAILED }

\* The four stages in the fixed order of _execute_workflow, by agent_name.
AgentName == <<"topic_discovery", "research", "writer", "content_checker">>
NumStages == 4
Stages == 1..NumStages

\* Status written before the agent of stage k is constructed.
StageStatus == <<DISCOVERING_TOPIC, RESEARCHING, WRITING, CHECKING>>
\* Status written after stage k (k < 4) returned a "success" result.
StageDoneStatus == <<TOPIC_SELECTED, RESEARCH_COMPLETE, DRAFT_COMPLETE>>

NoItem == [exists |-> FALSE]
NoVerdict == [status |-> "none"]
NoChecked == [exec |-> "none"]
NoResult == [status |-> "none"]

\* The functions below are not running during a workflow run of this model.
RetryOff == [pc |-> "off"]
TransientOff == [pc |-> "off"]
TopicOff == [pc |-> "off"]
SweepOff == [pc |-> "off"]
ApprovalOff == [pc |-> "off"]
TriggerOff == [pc |-> "off"]
ConcurrentOff == [pc |-> "off"]
DedupOff == [pc |-> "off"]
CheckerOff == [pc |-> "off"]
HandlerOff == [pc |-> "off"]
AgentErrorOff == [pc |-> "off"]
ExtOff ==
    /\ sw = SweepOff
    /\ ah = ApprovalOff
    /\ tr = TriggerOff
    /\ cu = ConcurrentOff
    /\ dd = DedupOff
    /\ cc = CheckerOff
    /\ hd = HandlerOff
    /\ he = AgentErrorOff

(***************************************************************************)
(* ContentCheckerAgent: the five checks, the score and the decision.       *)
(***************************************************************************)
CheckNames ==
    {"factual_accuracy", "seo_compliance", "research_alignment", "uniqueness", "quality"}

\* What the body of one _check_* method does: it computes passed = TRUE or
\* FALSE, or it raises inside its own try block.
CheckOutcome == {"pass", "fail", "error"}

CheckResult_FailsClosed(o) ==
    [passed |-> (o = "pass"), error |-> (o = "error"), raised |-> FALSE]

\* Result dict of one _check_* method: the try body returns its pass/fail
\* value, the except clause returns {"passed": True, "error": str(e)}.
\* raised = TRUE would mean the exception left the method.
CheckResult(o) ==
    IF o = "error" THEN [passed |-> TRUE, error |-> TRUE, raised |-> FALSE]
    ELSE [passed |-> (o = "pass"), error |-> FALSE, raised |-> FALSE]

\* execute: checks = { name: self._check_name(...) } for the five checks.
RunChecks(outcomes) == [c \in CheckNames |-> CheckResult(outcomes[c])]

weights_Uniform ==
    [factual_accuracy |-> 20, seo_compliance |-> 20, research_alignment |-> 20,
     uniqueness |-> 20, quality |-> 20]

\* weights of _calculate_quality_score, in hundredths (the code adds
\* Decimal(str(weight)), which is exact).
weights ==
    [factual_accuracy |-> 25, seo_compliance |-> 25, research_alignment |-> 20,
     uniqueness |-> 15, quality |-> 15]

RECURSIVE SumWeights(_, _)
SumWeights(checks, names) ==
    IF names = {} THEN 0
    ELSE LET c == CHOOSE x \in names : TRUE
         IN (IF checks[c].passed THEN weights[c] ELSE 0)
            + SumWeights(checks, names \ {c})

\* _calculate_quality_score: score += weight for every check with passed.
CalculateQualityScore(checks) == SumWeights(checks, CheckNames)

MakeDecision_SeoCritical(checks) ==
    IF \E c \in CheckNames \ {"quality"} : ~checks[c].passed THEN "REJECTED"
    ELSE IF ~checks["quality"].passed THEN "NEEDS_REVISION"
    ELSE "APPROVED"

\* _make_decision: the status part of the returned tuple.
MakeDecision(checks) ==
    LET critical_checks == { checks["factual_accuracy"].passed,
                             checks["research_alignment"].passed,
                             checks["uniqueness"].passed }
        seo_passed == checks["seo_compliance"].passed
        quality_passed == checks["quality"].passed
    IN IF FALSE \in critical_checks THEN "REJECTED"
       ELSE IF ~seo_passed \/ ~quality_passed THEN "NEEDS_REVISION"
       ELSE "APPROVED"

\* ContentCheckerAgent.execute: the output dict stored and returned as
\* validation_result.
CheckerOutput(outcomes) ==
    LET checks == RunChecks(outcomes)
    IN [status |-> MakeDecision(checks),
        quality_score |-> CalculateQualityScore(checks),
        checks |-> checks]

(***************************************************************************)
(* Store operations on the workflow record.                                *)
(***************************************************************************)
\* _update_workflow_status: SET #status = :status (update_item names only
\* the status and updated_at attributes).
UpdateWorkflowStatus(it, s) == [it EXCEPT !.status = s]

UpdateAgentState_WholeMap(it, name, s) ==
    [it EXCEPT !.agent_states = [n \in DOMAIN @ |-> IF n = name THEN s ELSE "absent"]]

\* BaseAgent.update_agent_state: SET agent_states.#agent_name = :agent_state
UpdateAgentState(it, name, s) == [it EXCEPT !.agent_states[name] = s]

(***************************************************************************)
(* ManagerAgent.start_workflow, step by step.                              *)
(***************************************************************************)
WfInit ==
    /\ pc = "idle"
    /\ stage = 0
    /\ item = NoItem
    /\ statusLog = <<>>
    /\ started = {}
    /\ notifyLog = <<>>
    /\ metricsLog = <<>>
    /\ failedAt = 0
    /\ validation = NoVerdict
    /\ checked = NoChecked
    /\ result = NoResult

\* start_workflow, lines 73-91: put_item of the initial record.
StartWorkflow ==
    /\ pc = "idle"
    /\ item' = [exists |-> TRUE,
                status |-> INITIALIZED,
                agent_states |-> [n \in {AgentName[k] : k \in Stages} |-> "absent"],
                retry_count |-> 0,
                max_retries |-> 2,
                approval_token |-> FALSE,
                article_data |-> FALSE]
    /\ statusLog' = <<INITIALIZED>>
    /\ stage' = 1
    /\ pc' = "begin_stage"
    /\ UNCHANGED <<started, notifyLog, metricsLog, failedAt, validation, checked, result, rb, te, ts, extVars>>

\* _execute_workflow: status update before a stage, construction of the
\* agent, and the first statement of execute (update_agent_state "running").
\* ctor_ok = FALSE: the agent's constructor raises.
BeginStage(ctor_ok) ==
    /\ pc = "begin_stage"
    /\ started' = started \cup {stage}
    /\ statusLog' = Append(statusLog, StageStatus[stage])
    /\ IF ctor_ok
       THEN /\ item' = UpdateAgentState(UpdateWorkflowStatus(item, StageStatus[stage]),
                                        AgentName[stage], "running")
            /\ pc' = "in_stage"
            /\ UNCHANGED failedAt
       ELSE /\ item' = UpdateWorkflowStatus(item, StageStatus[stage])
            /\ pc' = "exec_except"
            /\ failedAt' = stage
    /\ UNCHANGED <<stage, notifyLog, metricsLog, validation, checked, result, rb, te, ts, extVars>>

\* The manager's test of a stage result (lines 130, 147, 164, 189):
\* if result.get("status") != "success": raise Exception(...)
ResultOk_Always(outcome) == TRUE
ResultOk(outcome) == outcome = "success"

\* The else branch of lines 201-214: a REJECTED verdict returns at once.
ShortCircuits_Never(st) == FALSE
ShortCircuits(st) == st = REJECTED

EndStage_ContinuesOnRaise(outcome) ==
    LET agent_status == IF outcome = "raise" THEN "failed" ELSE "completed"
        it == UpdateAgentState(item, AgentName[stage], agent_status)
    IN
    /\ pc = "in_stage"
    /\ stage < NumStages
    /\ failedAt' = failedAt
    /\ item' = UpdateWorkflowStatus(it, StageDoneStatus[stage])
    /\ statusLog' = Append(statusLog, StageDoneStatus[stage])
    /\ stage' = stage + 1
    /\ pc' = "begin_stage"
    /\ UNCHANGED <<started, notifyLog, metricsLog, validation, checked, result, rb, te, ts, extVars>>

\* Stages 1..3: the rest of execute and the manager's test of the result.
\*   "success"    : update_agent_state("completed"), result status "success"
\*   "raise"      : handle_error -> update_agent_state("failed"), re-raise
\*   "nonsuccess" : execute returns a result whose status is not "success"
EndStage(outcome) ==
    LET agent_status == IF outcome = "raise" THEN "failed" ELSE "completed"
        it == UpdateAgentState(item, AgentName[stage], agent_status)
    IN
    /\ pc = "in_stage"
    /\ stage < NumStages
    /\ failedAt' = IF outcome = "success" THEN failedAt ELSE stage
    /\ IF outcome # "raise" /\ ResultOk(outcome)
       THEN /\ item' = UpdateWorkflowStatus(it, StageDoneStatus[stage])
            /\ statusLog' = Append(statusLog, StageDoneStatus[stage])
            /\ stage' = stage + 1
            /\ pc' = "begin_stage"
       ELSE /\ item' = it
            /\ pc' = "exec_except"
            /\ UNCHANGED <<statusLog, stage>>
    /\ UNCHANGED <<started, notifyLog, metricsLog, validation, checked, result, rb, te, ts, extVars>>

\* Stage 4: ContentCheckerAgent.execute and the manager's branch on the
\* verdict (lines 189-214).  outcomes: what each of the five checks does.
\* An exception that leaves a check aborts execute like any other raise.
EndChecker(outcome, outcomes) ==
    LET checks == RunChecks(outcomes)
        aborted == \E c \in CheckNames : checks[c].raised
        exec == IF outcome = "success" /\ aborted THEN "raise" ELSE outcome
        agent_status == IF exec = "raise" THEN "failed" ELSE "completed"
        it == UpdateAgentState(item, AgentName[stage], agent_status)
        out == CheckerOutput(outcomes)
        st == CASE out.status = "APPROVED" -> APPROVED
                [] out.status = "NEEDS_REVISION" -> NEEDS_REVISION
                [] OTHER -> REJECTED
    IN
    /\ pc = "in_stage"
    /\ stage = NumStages
    /\ checked' = [exec |-> outcome, outcomes |-> outcomes]
    /\ failedAt' = IF exec = "success" THEN failedAt ELSE stage
    /\ IF exec # "raise" /\ ResultOk(exec)
       THEN /\ validation' = out
            /\ item' = UpdateWorkflowStatus(it, st)
            /\ statusLog' = Append(statusLog, st)
            /\ IF ShortCircuits(st)
               THEN /\ result' = [status |-> "success",
                                  result |-> [status |-> REJECTED,
                                              validation |-> out]]
                    /\ pc' = "returned"
               ELSE /\ pc' = "send_email"
                    /\ UNCHANGED result
       ELSE /\ item' = it
            /\ pc' = "exec_except"
            /\ UNCHANGED <<statusLog, validation, result>>
    /\ UNCHANGED <<stage, started, notifyLog, metricsLog, rb, te, ts, extVars>>

\* What happens inside the try block of _send_approval_email:
\*   "sent"         : the token is stored and ses.send_email succeeds
\*   "send_failed"  : the token is stored, building or sending the mail raises
\*   "token_failed" : the update_item that stores the token raises
EmailOutcome == {"sent", "send_failed", "token_failed"}

\* _send_approval_email (lines 563-693): the record after the call
StoreApprovalToken(it, email) ==
    IF email = "token_failed" THEN it ELSE [it EXCEPT !.approval_token = TRUE]

SendApprovalEmail_StopsOnFailure(email) ==
    LET email_sent == (email = "sent")
    IN
    /\ pc = "send_email"
    /\ notifyLog' = Append(notifyLog, email_sent)
    /\ item' = IF email_sent
               THEN UpdateWorkflowStatus(StoreApprovalToken(item, email), EMAIL_SENT)
               ELSE StoreApprovalToken(item, email)
    /\ statusLog' = IF email_sent THEN Append(statusLog, EMAIL_SENT) ELSE statusLog
    /\ pc' = "store_article"
    /\ UNCHANGED <<stage, started, metricsLog, failedAt, validation, checked, result, rb, te, ts,
                   extVars>>

\* Step 5 (lines 216-230): _send_approval_email returns False instead of
\* raising, and both branches of "if email_sent" write EMAIL_SENT.
SendApprovalEmail(email) ==
    LET email_sent == (email = "sent")
    IN
    /\ pc = "send_email"
    /\ notifyLog' = Append(notifyLog, email_sent)
    /\ item' = UpdateWorkflowStatus(StoreApprovalToken(item, email), EMAIL_SENT)
    /\ statusLog' = Append(statusLog, EMAIL_SENT)
    /\ pc' = "store_article"
    /\ UNCHANGED <<stage, started, metricsLog, failedAt, validation, checked, result, rb, te, ts,
                   extVars>>

\* self.metrics is None ("none"), or the MetricsCollector calls return
\* ("recorded") or raise inside their try block ("failed")
MetricsOutcome == {"none", "recorded", "failed"}

RecordMetrics(log, metrics) ==
    IF metrics = "none" THEN log ELSE Append(log, metrics = "recorded")

StoreAndReturn_Propagates(stored, metrics) ==
    /\ pc = "store_article"
    /\ item' = [item EXCEPT !.article_data = stored]
    /\ metricsLog' = RecordMetrics(metricsLog, metrics)
    /\ IF stored /\ metrics # "failed"
       THEN /\ result' = [status |-> "success",
                          result |-> [status |-> EMAIL_SENT, validation |-> validation]]
            /\ pc' = "returned"
       ELSE /\ result' = result
            /\ pc' = "exec_except"
    /\ UNCHANGED <<stage, statusLog, started, notifyLog, failedAt, validation, checked, rb, te, ts, extVars>>

\* Lines 232-276 and 96-100: _store_article_data, metrics (failures of both
\* are swallowed), and the return of start_workflow.  stored = FALSE: the try
\* block of _store_article_data raised.
StoreAndReturn(stored, metrics) ==
    /\ pc = "store_article"
    /\ item' = [item EXCEPT !.article_data = stored]
    /\ metricsLog' = RecordMetrics(metricsLog, metrics)
    /\ result' = [status |-> "success",
                  result |-> [status |-> EMAIL_SENT, validation |-> validation]]
    /\ pc' = "returned"
    /\ UNCHANGED <<stage, statusLog, started, notifyLog, failedAt, validation, checked, rb, te, ts, extVars>>

\* except clause of _execute_workflow (lines 278-294): metrics, whose
\* failure is ignored, then FAILED and re-raise.
ExecuteExcept(metrics) ==
    /\ pc = "exec_except"
    /\ metricsLog' = RecordMetrics(metricsLog, metrics)
    /\ item' = UpdateWorkflowStatus(item, FAILED)
    /\ statusLog' = Append(statusLog, FAILED)
    /\ pc' = "start_except"
    /\ UNCHANGED <<stage, started, notifyLog, failedAt, validation, checked, result, rb, te, ts, extVars>>

\* except clause of start_workflow (lines 102-105): FAILED again, raise.
StartExcept ==
    /\ pc = "start_except"
    /\ item' = UpdateWorkflowStatus(item, FAILED)
    /\ statusLog' = Append(statusLog, FAILED)
    /\ pc' = "raised"
    /\ UNCHANGED <<stage, started, notifyLog, metricsLog, failedAt, validation, checked, result, rb, te, ts, extVars>>

StageOutcome == {"success", "raise", "nonsuccess"}

IdleOther ==
    /\ rb = RetryOff
    /\ te = TransientOff
    /\ ts = TopicOff
    /\ ExtOff

Init == WfInit /\ IdleOther

Next ==
    \/ StartWorkflow
    \/ \E ctor_ok \in BOOLEAN : BeginStage(ctor_ok)
    \/ \E o \in StageOutcome : EndStage(o)
    \/ \E o \in StageOutcome, outcomes \in [CheckNames -> CheckOutcome] : EndChecker(o, outcomes)
    \/ \E email \in EmailOutcome : SendApprovalEmail(email)
    \/ \E stored \in BOOLEAN, metrics \in MetricsOutcome : StoreAndReturn(stored, metrics)
    \/ \E metrics \in MetricsOutcome : ExecuteExcept(metrics)
    \/ StartExcept

Spec == Init /\ [][Next]_vars

(***************************************************************************)
(* BaseAgent.retry_with_backoff (base_agent.py:381-443).                   *)
(* Delays are in hundredths of a second.  Call number i of the operation   *)
(* returns the value i or raises the exception i.                          *)
(***************************************************************************)
MaxRetries == 3
BaseDelays == {100, 200}
MaxDelays == {300, 3000}
ExponentialBases == {2, 3}

Min(a, b) == IF a <= b THEN a ELSE b

RECURSIVE Pow(_, _)
Pow(b, n) == IF n = 0 THEN 1 ELSE b * Pow(b, n - 1)

BackoffDelay_Uncapped(base_delay, exponential_base, attempt, max_delay) ==
    base_delay * Pow(exponential_base, attempt)

\* delay = min(base_delay * (exponential_base ** attempt), max_delay)
BackoffDelay(base_delay, exponential_base, attempt, max_delay) ==
    Min(base_delay * Pow(exponential_base, attempt), max_delay)

\* jitter_range = delay * 0.25; random.uniform(-jitter_range, jitter_range):
\* the sampled offsets are the two ends, the middle and two inner points.
JitterOffsets(delay) ==
    LET jitter_range == delay \div 4
    IN { -jitter_range, -(jitter_range \div 2), 0, jitter_range \div 2, jitter_range }

LastAttempt_OffByOne(attempt, max_retries) == attempt + 1 >= max_retries

\* if attempt == max_retries: raise
LastAttempt(attempt, max_retries) == attempt = max_retries

RetryInit ==
    \E n \in 0..MaxRetries, bd \in BaseDelays, md \in MaxDelays,
       eb \in ExponentialBases, j \in BOOLEAN :
        rb = [pc |-> "call",
              max_retries |-> n, base_delay |-> bd, max_delay |-> md,
              exponential_base |-> eb, jitter |-> j,
              attempt |-> 0,
              calls |-> <<>>,        \* TRUE: the call returned, FALSE: it raised
              sleeps |-> <<>>,       \* arguments of time.sleep, in order
              last_exception |-> 0,
              returned |-> 0,        \* value returned by retry_with_backoff
              raised |-> 0]          \* exception raised by retry_with_backoff

\* One iteration of the for loop up to the end of the except clause or the
\* return: the call of operation(), and on failure the test for the last
\* attempt.
RetryCall(ok) ==
    LET n == Len(rb.calls) + 1
    IN
    /\ rb.pc = "call"
    /\ IF ok
       THEN rb' = [rb EXCEPT !.calls = Append(@, TRUE), !.returned = n, !.pc = "returned"]
       ELSE IF LastAttempt(rb.attempt, rb.max_retries)
            THEN rb' = [rb EXCEPT !.calls = Append(@, FALSE), !.last_exception = n,
                                  !.raised = n, !.pc = "raised"]
            ELSE rb' = [rb EXCEPT !.calls = Append(@, FALSE), !.last_exception = n,
                                  !.pc = "sleep"]
    /\ UNCHANGED <<wfVars, te, ts, extVars>>

\* Lines 425-439: the delay, the jitter, time.sleep(delay), next iteration.
RetrySleep ==
    /\ rb.pc = "sleep"
    /\ LET delay == BackoffDelay(rb.base_delay, rb.exponential_base, rb.attempt, rb.max_delay)
       IN \E u \in (IF rb.jitter THEN JitterOffsets(delay) ELSE {0}) :
            rb' = [rb EXCEPT !.sleeps = Append(@, delay + u),
                             !.attempt = @ + 1,
                             !.pc = "call"]
    /\ UNCHANGED <<wfVars, te, ts, extVars>>

NextRetry ==
    \/ \E ok \in BOOLEAN : RetryCall(ok)
    \/ RetrySleep

InitRetry ==
    /\ WfInit
    /\ RetryInit
    /\ te = TransientOff
    /\ ts = TopicOff
    /\ ExtOff

SpecRetry == InitRetry /\ [][NextRetry]_vars

(***************************************************************************)
(* BaseAgent.is_transient_error (base_agent.py:445-489).                   *)
(* A string is the sequence of its characters.                             *)
(***************************************************************************)
UpperCase == <<"A", "B", "C", "D", "E", "F", "G", "H", "I", "J", "K", "L", "M", "N", "O", "P", "Q", "R", "S", "T", "U", "V", "W", "X", "Y", "Z">>
LowerCase == <<"a", "b", "c", "d", "e", "f", "g", "h", "i", "j", "k", "l", "m", "n", "o", "p", "q", "r", "s", "t", "u", "v", "w", "x", "y", "z">>

\* str.lower(), character by character
LowerChar(c) ==
    IF \E i \in 1..Len(UpperCase) : UpperCase[i] = c
    THEN LowerCase[CHOOSE i \in 1..Len(UpperCase) : UpperCase[i] = c]
    ELSE c

ToLower(s) == [i \in 1..Len(s) |-> LowerChar(s[i])]

\* pattern in text (substring test)
Contains(text, pattern) ==
    \E i \in 0..(Len(text) - Len(pattern)) : SubSeq(text, i + 1, i + Len(pattern)) = pattern

\* str(error): the message; KeyError shows the repr of its argument.
Str(error) ==
    IF error.type = "KeyError" THEN <<"'">> \o error.msg \o <<"'">> ELSE error.msg

transient_patterns ==
    { <<"t", "i", "m", "e", "o", "u", "t">>,
      <<"c", "o", "n", "n", "e", "c", "t", "i", "o", "n">>,
      <<"t", "h", "r", "o", "t", "t", "l">>,
      <<"r", "a", "t", "e", " ", "l", "i", "m", "i", "t">>,
      <<"s", "e", "r", "v", "i", "c", "e", " ", "u", "n", "a", "v", "a", "i", "l", "a", "b", "l", "e">>,
      <<"i", "n", "t", "e", "r", "n", "a", "l", " ", "s", "e", "r", "v", "e", "r", " ", "e", "r", "r", "o", "r">>,
      <<"5", "0", "0">>,
      <<"5", "0", "2">>,
      <<"5", "0", "3">>,
      <<"5", "0", "4">>,
      <<"t", "e", "m", "p", "o", "r", "a", "r">> }

transient_types == {"TimeoutError", "ConnectionError", "BrokenPipeError", "IncompleteRead"}

IsTransientError_CaseSensitive(error) ==
    \/ \E pattern \in transient_patterns : Contains(Str(error), pattern)
    \/ error.type \in transient_types

\* is_transient_error: type(error).__name__ is compared by name, so a
\* subclass such as ConnectionResetError is not in transient_types.
IsTransientError(error) ==
    LET error_message == ToLower(Str(error))
        error_type == error.type
    IN \/ \E pattern \in transient_patterns : Contains(error_message, pattern)
       \/ error_type \in transient_types

\* Exceptions given to is_transient_error: the classes and messages of
\* tests/test_phase4.py and a few more.
ErrorTypes ==
    {"Exception", "ValueError", "KeyError", "ConnectionError", "TimeoutError",
     "BrokenPipeError", "IncompleteRead", "ConnectionResetError"}

Messages ==
    <<
       \* 1: Connection timeout
       <<"C", "o", "n", "n", "e", "c", "t", "i", "o", "n", " ", "t", "i", "m", "e", "o", "u", "t">>,
       \* 2: Request timeout
       <<"R", "e", "q", "u", "e", "s", "t", " ", "t", "i", "m", "e", "o", "u", "t">>,
       \* 3: Throttling limit exceeded
       <<"T", "h", "r", "o", "t", "t", "l", "i", "n", "g", " ", "l", "i", "m", "i", "t", " ", "e", "x", "c", "e", "e", "d", "e", "d">>,
       \* 4: 503 Service Unavailable
       <<"5", "0", "3", " ", "S", "e", "r", "v", "i", "c", "e", " ", "U", "n", "a", "v", "a", "i", "l", "a", "b", "l", "e">>,
       \* 5: Invalid input
       <<"I", "n", "v", "a", "l", "i", "d", " ", "i", "n", "p", "u", "t">>,
       \* 6: Missing key
       <<"M", "i", "s", "s", "i", "n", "g", " ", "k", "e", "y">>,
       \* 7: Validation failed
       <<"V", "a", "l", "i", "d", "a", "t", "i", "o", "n", " ", "f", "a", "i", "l", "e", "d">>,
       \* 8: Permanent error
       <<"P", "e", "r", "m", "a", "n", "e", "n", "t", " ", "e", "r", "r", "o", "r">>,
       \* 9: Temporary connection error
       <<"T", "e", "m", "p", "o", "r", "a", "r", "y", " ", "c", "o", "n", "n", "e", "c", "t", "i", "o", "n", " ", "e", "r", "r", "o", "r">>,
       \* 10: invalid literal for int() with base 10: '500'
       <<"i", "n", "v", "a", "l", "i", "d", " ", "l", "i", "t", "e", "r", "a", "l", " ", "f", "o", "r", " ", "i", "n", "t", "(", ")", " ", "w", "i", "t", "h", " ", "b", "a", "s", "e", " ", "1", "0", ":", " ", "'", "5", "0", "0", "'">>,
       \* 11: peer reset
       <<"p", "e", "e", "r", " ", "r", "e", "s", "e", "t">>,
       \* 12: RATE LIMIT hit
       <<"R", "A", "T", "E", " ", "L", "I", "M", "I", "T", " ", "h", "i", "t">>,
       \* 13: (empty message)
       <<>>,
       \* 14: listening on port 5030
       <<"l", "i", "s", "t", "e", "n", "i", "n", "g", " ", "o", "n", " ", "p", "o", "r", "t", " ", "5", "0", "3", "0">>
    >>

Errors == [type : ErrorTypes, msg : {Messages[i] : i \in 1..Len(Messages)}]

TransientInit == \E e \in Errors : te = [pc |-> "ready", error |-> e, result |-> FALSE]

ClassifyError ==
    /\ te.pc = "ready"
    /\ te' = [te EXCEPT !.pc = "done", !.result = IsTransientError(te.error)]
    /\ UNCHANGED <<wfVars, rb, ts, extVars>>

NextTransient == ClassifyError

InitTransient ==
    /\ WfInit
    /\ rb = RetryOff
    /\ TransientInit
    /\ ts = TopicOff
    /\ ExtOff

SpecTransient == InitTransient /\ [][NextTransient]_vars

(***************************************************************************)
(* TopicDiscoveryAgent._analyze_articles and _select_unique_topic          *)
(* (topic_discovery_agent.py:315-459).                                     *)
(* A title is [id, form]: id names the text up to letter case, form is its *)
(* casing.  TOPIC_BANK is cut down to BankSize titles.                     *)
(***************************************************************************)
BankSize == 3
NumCategories == 2
MaxHistory == 3

EmptyTitle == [id |-> 0, form |-> "lower"]
UnknownCategory == 0

\* str.lower() on a title
TitleLower(t) == [t EXCEPT !.form = "lower"]

CategoryOf(i) == ((i - 1) % NumCategories) + 1

TOPIC_BANK ==
    [i \in 1..BankSize |-> [title |-> [id |-> i, form |-> "Title"], category |-> CategoryOf(i)]]

\* Records of published articles as the scan returns them: the title of a
\* bank topic in any casing with the bank's category or none (read as
\* 'Unknown'), a title outside the bank (id BankSize + 1) with any category
\* or none, or no title.
Articles ==
    UNION { { [topic_title |-> [id |-> i, form |-> f], topic_category |-> c] :
                  f \in {"Title", "UPPER"}, c \in {CategoryOf(i), UnknownCategory} } :
            i \in 1..BankSize }
    \cup { [topic_title |-> [id |-> BankSize + 1, form |-> "Title"], topic_category |-> c] :
             c \in (1..NumCategories) \cup {UnknownCategory} }
    \cup { [topic_title |-> EmptyTitle, topic_category |-> UnknownCategory] }

RECURSIVE SeqsUpTo(_, _)
SeqsUpTo(S, n) ==
    IF n = 0 THEN { <<>> }
    ELSE LET shorter == SeqsUpTo(S, n - 1)
         IN shorter \cup { Append(q, x) : q \in {r \in shorter : Len(r) = n - 1}, x \in S }

AnalyzeArticles_NoUnderrep(articles) ==
    LET category_counts ==
            [c \in {articles[i].topic_category : i \in 1..Len(articles)} |->
                Cardinality({i \in 1..Len(articles) : articles[i].topic_category = c})]
        all_categories == {TOPIC_BANK[i].category : i \in 1..BankSize}
        covered_categories == DOMAIN category_counts
    IN [category_distribution |-> category_counts,
        gap_categories |-> all_categories \ covered_categories,
        underrepresented_categories |-> {}]

\* _analyze_articles: category_counts, gap_categories, underrep_categories
AnalyzeArticles(articles) ==
    LET category_counts ==
            [c \in {articles[i].topic_category : i \in 1..Len(articles)} |->
                Cardinality({i \in 1..Len(articles) : articles[i].topic_category = c})]
        all_categories == {TOPIC_BANK[i].category : i \in 1..BankSize}
        covered_categories == DOMAIN category_counts
    IN [category_distribution |-> category_counts,
        gap_categories |-> all_categories \ covered_categories,
        underrepresented_categories |-> {c \in covered_categories : category_counts[c] <= 1}]

\* published_titles: the lower-cased non-empty titles of the history
PublishedTitles(published_articles) ==
    { TitleLower(published_articles[i].topic_title) :
        i \in {j \in 1..Len(published_articles) : published_articles[j].topic_title # EmptyTitle} }

AvailableTopics_CaseSensitive(published_titles) ==
    { i \in 1..BankSize : TOPIC_BANK[i].title \notin published_titles }

\* available_topics (indices into TOPIC_BANK) before the fallback
AvailableTopics(published_titles) ==
    { i \in 1..BankSize : TitleLower(TOPIC_BANK[i].title) \notin published_titles }

UniquenessScore_NoLower(title, published_titles) ==
    IF title \notin published_titles THEN 10 ELSE 5

\* uniqueness_score in tenths: Decimal('1.0') if the lower-cased selected
\* title is not in published_titles, else Decimal('0.5')
UniquenessScore(title, published_titles) ==
    IF TitleLower(title) \notin published_titles THEN 10 ELSE 5

TopicInit ==
    \E h \in SeqsUpTo(Articles, MaxHistory) :
        ts = [pc |-> "ready", published_articles |-> h]

\* execute, steps 2 and 3: _analyze_articles, then _select_unique_topic;
\* random.choice is the choice of sel.
SelectUniqueTopic ==
    /\ ts.pc = "ready"
    /\ LET analysis == AnalyzeArticles(ts.published_articles)
           published_titles == PublishedTitles(ts.published_articles)
           filtered == AvailableTopics(published_titles)
           available_topics == IF filtered = {} THEN 1..BankSize ELSE filtered
           priority_categories ==
               analysis.gap_categories \cup analysis.underrepresented_categories
           priority_topics ==
               { i \in available_topics : TOPIC_BANK[i].category \in priority_categories }
           pool == IF priority_topics # {} THEN priority_topics ELSE available_topics
       IN \E sel \in pool :
            ts' = [pc |-> "done",
                   published_articles |-> ts.published_articles,
                   analysis |-> analysis,
                   fallback |-> (filtered = {}),
                   from_priority |-> (priority_topics # {}),
                   selected |->
                      [title |-> TOPIC_BANK[sel].title,
                       category |-> TOPIC_BANK[sel].category,
                       uniqueness_score |->
                          UniquenessScore(TOPIC_BANK[sel].title, published_titles)]]
    /\ UNCHANGED <<wfVars, rb, te, extVars>>

NextTopic == SelectUniqueTopic

InitTopic ==
    /\ WfInit
    /\ rb = RetryOff
    /\ te = TransientOff
    /\ TopicInit
    /\ ExtOff

SpecTopic == InitTopic /\ [][NextTopic]_vars

(***************************************************************************)
(* TopicDiscoveryAgent._cleanup_stale_workflows                            *)
(* (topic_discovery_agent.py:229-280).                                     *)
(* Times are whole seconds.  created_at and the cutoff are compared as     *)
(* isoformat() strings of UTC datetimes, which order as the times do.      *)
(***************************************************************************)
MaxRecords == 3
HorizonSeconds == 24 * 3600
SweepNow == 100000

NoRecord == [exists |-> FALSE]

\* status values found in the table: written by send_email_preview
\* ("awaiting_approval"), by manual_trigger_handler ("in_progress") and by
\* ManagerAgent after the approval notification (EMAIL_SENT)
SweepStatuses == {"awaiting_approval", "in_progress", EMAIL_SENT}

CutoffTime(now) == now - HorizonSeconds

SweepCreatedAts ==
    {CutoffTime(SweepNow) - 1, CutoffTime(SweepNow), CutoffTime(SweepNow) + 1}

SweepRecords ==
    [exists : {TRUE}, status : SweepStatuses, created_at : SweepCreatedAts]

IsStale_Inclusive(rec, cutoff) ==
    /\ rec.exists
    /\ rec.status = "awaiting_approval"
    /\ rec.created_at <= cutoff

\* FilterExpression of the scan
IsStale(rec, cutoff) ==
    /\ rec.exists
    /\ rec.status = "awaiting_approval"
    /\ rec.created_at < cutoff

\* the ids of S in ascending order
RECURSIVE SetToSeq(_)
SetToSeq(S) ==
    IF S = {} THEN <<>>
    ELSE LET m == CHOOSE x \in S : \A y \in S : x <= y
         IN <<m>> \o SetToSeq(S \ {m})

SweepInit ==
    \E t \in [1..MaxRecords -> SweepRecords \cup {NoRecord}] :
        sw = [pc |-> "scan", now |-> SweepNow, before |-> t, table |-> t,
              stale_workflows |-> <<>>, deleted_count |-> 0,
              result |-> [returned |-> FALSE]]

\* the scan; when it raises, the outer except returns deleted_workflows = 0
SweepScan(ok) ==
    /\ sw.pc = "scan"
    /\ IF ok
       THEN sw' = [sw EXCEPT
                !.pc = "delete",
                !.stale_workflows =
                    SetToSeq({i \in 1..MaxRecords : IsStale(sw.table[i], CutoffTime(sw.now))})]
       ELSE sw' = [sw EXCEPT
                !.pc = "done",
                !.result = [returned |-> TRUE, deleted_workflows |-> 0, error |-> TRUE]]
    /\ UNCHANGED <<wfVars, rb, te, ts, ah, tr, cu, dd, cc, hd, he>>

SweepDelete_AbortsOnFailure(ok) ==
    /\ sw.pc = "delete"
    /\ sw.stale_workflows # <<>>
    /\ LET workflow_id == Head(sw.stale_workflows)
       IN IF ok
          THEN sw' = [sw EXCEPT
                    !.table[workflow_id] = NoRecord,
                    !.deleted_count = @ + 1,
                    !.stale_workflows = Tail(@)]
          ELSE sw' = [sw EXCEPT
                    !.pc = "done",
                    !.result = [returned |-> TRUE, deleted_workflows |-> sw.deleted_count,
                                error |-> TRUE]]
    /\ UNCHANGED <<wfVars, rb, te, ts, ah, tr, cu, dd, cc, hd, he>>

\* one turn of the loop: delete_item, a failure of which is logged and skipped
SweepDelete(ok) ==
    /\ sw.pc = "delete"
    /\ sw.stale_workflows # <<>>
    /\ LET workflow_id == Head(sw.stale_workflows)
       IN sw' = [sw EXCEPT
                !.table[workflow_id] = IF ok THEN NoRecord ELSE @,
                !.deleted_count = IF ok THEN @ + 1 ELSE @,
                !.stale_workflows = Tail(@)]
    /\ UNCHANGED <<wfVars, rb, te, ts, ah, tr, cu, dd, cc, hd, he>>

SweepReturn ==
    /\ sw.pc = "delete"
    /\ sw.stale_workflows = <<>>
    /\ sw' = [sw EXCEPT
            !.pc = "done",
            !.result = [returned |-> TRUE, deleted_workflows |-> sw.deleted_count,
                        error |-> FALSE]]
    /\ UNCHANGED <<wfVars, rb, te, ts, ah, tr, cu, dd, cc, hd, he>>

\* a run of the sweep in which the calls to the table succeed
NextSweep ==
    \/ SweepScan(TRUE)
    \/ SweepDelete(TRUE)
    \/ SweepReturn

InitSweep ==
    /\ WfInit
    /\ rb = RetryOff
    /\ te = TransientOff
    /\ ts = TopicOff
    /\ SweepInit
    /\ ah = ApprovalOff
    /\ tr = TriggerOff
    /\ cu = ConcurrentOff
    /\ dd = DedupOff
    /\ cc = CheckerOff
    /\ hd = HandlerOff
    /\ he = AgentErrorOff

SpecSweep == InitSweep /\ [][NextSweep]_vars

(***************************************************************************)
(* blog_agent.approval_handler (blog_agent.py:1342-1456): the request      *)
(* behind the approve / decline links of the approval notification.        *)
(* A request token is "valid" when it is the value stored as the record's  *)
(* approval_token, "unknown" when it is any other non-empty value.         *)
(***************************************************************************)
MaxRequests == 2

RequestTokens == {"missing", "valid", "unknown"}
RequestActions == {"missing", "approve", "decline", "other"}

NoRequest == [handled |-> FALSE]

TokenMatches_AnyRecord(it, token) == it.exists

\* the scan with FilterExpression approval_token = :token finds the record
TokenMatches(it, token) ==
    /\ it.exists
    /\ it.approval_token
    /\ token = "valid"

\* SET #status = :status, published_url = :url, published_date = :date
SetPublished(it) == ("published_url" :> TRUE) @@ [it EXCEPT !.status = PUBLISHED]

\* SET #status = :status
SetDeclined(it) == [it EXCEPT !.status = DECLINED]

ApprovalInit ==
    ah = [pc |-> "ready", requests |-> 0, publish_calls |-> 0, last |-> NoRequest]

\* One request, from the reading of the query string to the response.
\* publish_ok: publish_to_sanity returns (TRUE) or raises (FALSE).
ApprovalHandler(token, action, publish_ok) ==
    /\ ah.pc = "ready"
    /\ ah.requests < MaxRequests
    /\ LET missing == token = "missing" \/ action = "missing"
           found == ~missing /\ TokenMatches(item, token)
           has_article == found /\ item.article_data
           publishes == found /\ action = "approve" /\ has_article
           after == CASE publishes /\ publish_ok -> SetPublished(item)
                      [] found /\ action = "decline" -> SetDeclined(item)
                      [] OTHER -> item
           statusCode == CASE missing -> 400
                           [] ~found -> 404
                           [] action = "approve" ->
                                IF has_article /\ publish_ok THEN 200 ELSE 500
                           [] action = "decline" -> 200
                           [] OTHER -> 400
       IN /\ item' = after
          /\ statusLog' = CASE publishes /\ publish_ok -> Append(statusLog, PUBLISHED)
                            [] found /\ action = "decline" -> Append(statusLog, DECLINED)
                            [] OTHER -> statusLog
          /\ ah' = [ah EXCEPT
                !.requests = @ + 1,
                !.publish_calls = IF publishes THEN @ + 1 ELSE @,
                !.last = [handled |-> TRUE, token |-> token, action |-> action,
                          statusCode |-> statusCode, published |-> publishes,
                          before |-> item, after |-> after]]
    /\ UNCHANGED <<pc, stage, started, notifyLog, metricsLog, failedAt, validation, checked, result>>
    /\ UNCHANGED <<rb, te, ts, sw, tr, cu, dd, cc, hd, he>>

\* The workflow run of ManagerAgent and the requests to the approval
\* endpoint, which arrive at any time.  VerdictSamples is one outcome of the
\* five checks for each verdict.
VerdictSamples ==
    { [c \in CheckNames |-> "pass"],
      [c \in CheckNames |-> IF c = "seo_compliance" THEN "fail" ELSE "pass"],
      [c \in CheckNames |-> IF c = "factual_accuracy" THEN "fail" ELSE "pass"] }

NextApproval ==
    \/ StartWorkflow
    \/ \E ctor_ok \in BOOLEAN : BeginStage(ctor_ok)
    \/ \E o \in StageOutcome : EndStage(o)
    \/ \E o \in StageOutcome, outcomes \in VerdictSamples : EndChecker(o, outcomes)
    \/ \E email \in EmailOutcome : SendApprovalEmail(email)
    \/ \E stored \in BOOLEAN, metrics \in MetricsOutcome : StoreAndReturn(stored, metrics)
    \/ \E metrics \in MetricsOutcome : ExecuteExcept(metrics)
    \/ StartExcept
    \/ \E token \in RequestTokens, action \in RequestActions, publish_ok \in BOOLEAN :
          ApprovalHandler(token, action, publish_ok)

InitApproval ==
    /\ WfInit
    /\ rb = RetryOff
    /\ te = TransientOff
    /\ ts = TopicOff
    /\ sw = SweepOff
    /\ ApprovalInit
    /\ tr = TriggerOff
    /\ cu = ConcurrentOff
    /\ dd = DedupOff
    /\ cc = CheckerOff
    /\ hd = HandlerOff
    /\ he = AgentErrorOff

SpecApproval == InitApproval /\ [][NextApproval]_vars

(***************************************************************************)
(* Triggers on one workflow table: blog_agent.manual_trigger_handler       *)
(* (blog_agent.py:1459-1549) and ManagerAgent.start_workflow, as called by *)
(* multi_agent_handler (manager_agent.py:63-105).  Each trigger is one     *)
(* invocation p; invocations interleave.  The clock is in milliseconds.    *)
(***************************************************************************)
NumTriggers == 2
MaxTicks == 2
StartClock == 1000000
TickSteps == {1, 1000, 600000}
DuplicateWindowMs == 600 * 1000

Triggers == 1..NumTriggers

\* f"workflow-manual-{int(datetime.now().timestamp())}": whole seconds
ManualWorkflowId(now) == [prefix |-> "workflow-manual-", n |-> now \div 1000]

\* f"workflow-{int(datetime.now(timezone.utc).timestamp() * 1000)}"
ManagerWorkflowId(now) == [prefix |-> "workflow-", n |-> now]

\* FilterExpression of the duplicate pre-check
IsActiveRecent(rec, now) ==
    /\ rec.status \in {"in_progress", "awaiting_approval"}
    /\ rec.created_at > now - DuplicateWindowMs

\* the attributes of the Item given to put_item by manual_trigger_handler,
\* by send_email_preview and by ManagerAgent.start_workflow
ManualRecordFields ==
    {"workflow_id", "status", "topic_title", "created_at", "updated_at"}
PreviewRecordFields ==
    {"workflow_id", "status", "article_data", "images_data", "approval_token",
     "created_at", "topic_title"}
ManagerRecordFields ==
    {"workflow_id", "status", "created_at", "updated_at", "trigger_type",
     "agent_states", "retry_count", "max_retries", "schema_version"}

\* put_item: the item replaces any item with the same key
PutItem(table, rec) ==
    {r \in table : r.workflow_id # rec.workflow_id} \cup {rec}

\* update_item SET #status = :status, updated_at = :updated_at on the item
\* with this key
SetStatus(table, workflow_id, status) ==
    {IF r.workflow_id = workflow_id
     THEN [r EXCEPT !.status = status, !.fields = @ \cup {"status", "updated_at"}]
     ELSE r : r \in table}

IdleTrigger ==
    [pc |-> "idle", kind |-> "none", workflow_id |-> [prefix |-> "", n |-> 0],
     active_at_arrival |-> FALSE, created |-> FALSE, generated |-> FALSE,
     notified |-> FALSE, response |-> 0]

TriggerInit ==
    tr = [clock |-> StartClock, ticks |-> 0, table |-> {},
          procs |-> [p \in Triggers |-> IdleTrigger]]

\* time passes between two steps
Tick(d) ==
    /\ tr.ticks < MaxTicks
    /\ tr' = [tr EXCEPT !.clock = @ + d, !.ticks = @ + 1]
    /\ UNCHANGED <<wfVars, rb, te, ts, sw, ah, cu, dd, cc, hd, he>>

\* manual_trigger_handler, lines 1461-1497: the id, the duplicate pre-check
\* (a scan that raises is logged and the handler goes on) and the topic.
ManualTrigger(p, scan_ok, topic_found) ==
    /\ tr.procs[p].pc = "idle"
    /\ LET active == \E r \in tr.table : IsActiveRecent(r, tr.clock)
           blocked == scan_ok /\ active
       IN tr' = [tr EXCEPT !.procs[p] =
                [@ EXCEPT !.kind = "manual",
                          !.workflow_id = ManualWorkflowId(tr.clock),
                          !.active_at_arrival = active,
                          !.pc = IF blocked \/ ~topic_found THEN "done" ELSE "create",
                          !.response = IF blocked THEN 429
                                       ELSE IF ~topic_found THEN 404 ELSE 0]]
    /\ UNCHANGED <<wfVars, rb, te, ts, sw, ah, cu, dd, cc, hd, he>>

ManualCreate_IfAbsent(p) ==
    /\ tr.procs[p].pc = "create"
    /\ IF \E r \in tr.table : IsActiveRecent(r, tr.clock)
       THEN tr' = [tr EXCEPT !.procs[p] = [@ EXCEPT !.pc = "done", !.response = 429]]
       ELSE tr' = [tr EXCEPT
                !.table = PutItem(@, [workflow_id |-> tr.procs[p].workflow_id,
                                      status |-> "in_progress",
                                      created_at |-> tr.clock,
                                      fields |-> ManualRecordFields]),
                !.procs[p] = [@ EXCEPT !.created = TRUE, !.pc = "generate"]]
    /\ UNCHANGED <<wfVars, rb, te, ts, sw, ah, cu, dd, cc, hd, he>>

\* lines 1501-1511: put_item of the in_progress record
ManualCreate(p) ==
    /\ tr.procs[p].pc = "create"
    /\ tr' = [tr EXCEPT
            !.table = PutItem(@, [workflow_id |-> tr.procs[p].workflow_id,
                                  status |-> "in_progress",
                                  created_at |-> tr.clock,
                                  fields |-> ManualRecordFields]),
            !.procs[p] = [@ EXCEPT !.created = TRUE, !.pc = "generate"]]
    /\ UNCHANGED <<wfVars, rb, te, ts, sw, ah, cu, dd, cc, hd, he>>

\* lines 1513-1514: research_and_write and find_images; an exception goes to
\* the outer except, which answers 500
ManualGenerate(p, ok) ==
    /\ tr.procs[p].pc = "generate"
    /\ tr' = [tr EXCEPT !.procs[p] =
            [@ EXCEPT !.generated = TRUE,
                      !.pc = IF ok THEN "notify" ELSE "done",
                      !.response = IF ok THEN 0 ELSE 500]]
    /\ UNCHANGED <<wfVars, rb, te, ts, sw, ah, cu, dd, cc, hd, he>>

\* line 1515 and send_email_preview (846-932): put_item of the
\* awaiting_approval record, then the mail, whose failure returns False;
\* the handler ignores the returned value.
PreviewOutcome == {"sent", "send_failed", "put_failed"}

ManualSendPreview(p, outcome) ==
    /\ tr.procs[p].pc = "notify"
    /\ tr' = [tr EXCEPT
            !.table = IF outcome = "put_failed" THEN @
                      ELSE PutItem(@, [workflow_id |-> tr.procs[p].workflow_id,
                                       status |-> "awaiting_approval",
                                       created_at |-> tr.clock,
                                       fields |-> PreviewRecordFields]),
            !.procs[p] = [@ EXCEPT !.notified = TRUE,
                                   !.pc = "done",
                                   !.response = IF outcome = "put_failed" THEN 500 ELSE 200]]
    /\ UNCHANGED <<wfVars, rb, te, ts, sw, ah, cu, dd, cc, hd, he>>

\* start_workflow, lines 73-91: the id from the clock and the put_item of
\* the initial record; no scan of the table precedes it.
ManagerTrigger(p) ==
    /\ tr.procs[p].pc = "idle"
    /\ LET active == \E r \in tr.table : IsActiveRecent(r, tr.clock)
           workflow_id == ManagerWorkflowId(tr.clock)
       IN tr' = [tr EXCEPT
            !.table = PutItem(@, [workflow_id |-> workflow_id,
                                  status |-> INITIALIZED,
                                  created_at |-> tr.clock,
                                  fields |-> ManagerRecordFields]),
            !.procs[p] = [@ EXCEPT !.kind = "manager",
                                   !.workflow_id = workflow_id,
                                   !.active_at_arrival = active,
                                   !.created = TRUE,
                                   !.pc = "execute"]]
    /\ UNCHANGED <<wfVars, rb, te, ts, sw, ah, cu, dd, cc, hd, he>>

\* _execute_workflow as a whole: the stages run and the record ends with
\* status email_sent (after _send_approval_email), rejected or failed
ManagerFinalStatus == {EMAIL_SENT, REJECTED, FAILED}

ManagerExecute(p, final) ==
    /\ tr.procs[p].pc = "execute"
    /\ tr' = [tr EXCEPT
            !.table = SetStatus(@, tr.procs[p].workflow_id, final),
            !.procs[p] = [@ EXCEPT !.generated = TRUE,
                                   !.notified = (final = EMAIL_SENT),
                                   !.pc = "done",
                                   !.response = IF final = FAILED THEN 500 ELSE 200]]
    /\ UNCHANGED <<wfVars, rb, te, ts, sw, ah, cu, dd, cc, hd, he>>

\* the scan of the pre-check succeeds
NextTrigger ==
    \/ \E d \in TickSteps : Tick(d)
    \/ \E p \in Triggers, topic_found \in BOOLEAN : ManualTrigger(p, TRUE, topic_found)
    \/ \E p \in Triggers : ManualCreate(p)
    \/ \E p \in Triggers, ok \in BOOLEAN : ManualGenerate(p, ok)
    \/ \E p \in Triggers, outcome \in PreviewOutcome : ManualSendPreview(p, outcome)
    \/ \E p \in Triggers : ManagerTrigger(p)
    \/ \E p \in Triggers, final \in ManagerFinalStatus : ManagerExecute(p, final)

InitTrigger ==
    /\ WfInit
    /\ rb = RetryOff
    /\ te = TransientOff
    /\ ts = TopicOff
    /\ sw = SweepOff
    /\ ah = ApprovalOff
    /\ TriggerInit
    /\ cu = ConcurrentOff
    /\ dd = DedupOff
    /\ cc = CheckerOff
    /\ hd = HandlerOff
    /\ he = AgentErrorOff

SpecTrigger == InitTrigger /\ [][NextTrigger]_vars

(***************************************************************************)
(* Concurrent update_item calls on one workflow record: two agents of      *)
(* different names in BaseAgent.update_agent_state (base_agent.py:130-211) *)
(* and ManagerAgent._update_workflow_status (manager_agent.py:296-337).    *)
(* Each call is one atomic update of the item by the table; the steps of   *)
(* the callers interleave.                                                 *)
(***************************************************************************)
MaxUpdates == 2

\* the callers: 1 and 2 are agents, 3 is the manager
ConcurrentAgentName == <<"research", "writer">>
AgentProcs == {1, 2}
ManagerProc == 3
AgentStatuses == {"running", "completed", "failed"}
ConcurrentStatuses == {RESEARCHING, WRITING, FAILED}

ConcurrentInit ==
    cu = [item |-> [exists |-> TRUE,
                    status |-> INITIALIZED,
                    agent_states |-> [n \in {AgentName[k] : k \in Stages} |-> "absent"],
                    updated_at |-> 0],
          pc |-> [p \in AgentProcs |-> "ready"],
          agent_state |-> [p \in AgentProcs |-> "absent"],
          calls |-> [p \in AgentProcs \cup {ManagerProc} |-> 0],
          written |-> [p \in AgentProcs \cup {ManagerProc} |-> "none"]]

\* update_agent_state, lines 146-192: the agent_state dict is built from the
\* arguments alone; the record is not read
BuildAgentState(p, status) ==
    /\ cu.pc[p] = "ready"
    /\ cu.calls[p] < MaxUpdates
    /\ cu' = [cu EXCEPT !.pc[p] = "built", !.agent_state[p] = status]
    /\ UNCHANGED <<wfVars, rb, te, ts, sw, ah, tr, dd, cc, hd, he>>

\* update_agent_state, lines 194-205:
\* SET agent_states.#agent_name = :agent_state, updated_at = :updated_at
CallUpdateAgentState(p) ==
    /\ cu.pc[p] = "built"
    /\ cu' = [cu EXCEPT
            !.item = [UpdateAgentState(@, ConcurrentAgentName[p], cu.agent_state[p])
                        EXCEPT !.updated_at = p],
            !.pc[p] = "ready",
            !.calls[p] = @ + 1,
            !.written[p] = cu.agent_state[p]]
    /\ UNCHANGED <<wfVars, rb, te, ts, sw, ah, tr, dd, cc, hd, he>>

\* _update_workflow_status, lines 305-331:
\* SET #status = :status, updated_at = :updated_at
CallUpdateWorkflowStatus(status) ==
    /\ cu.calls[ManagerProc] < MaxUpdates
    /\ cu' = [cu EXCEPT
            !.item = [UpdateWorkflowStatus(@, status) EXCEPT !.updated_at = ManagerProc],
            !.calls[ManagerProc] = @ + 1,
            !.written[ManagerProc] = status]
    /\ UNCHANGED <<wfVars, rb, te, ts, sw, ah, tr, dd, cc, hd, he>>

NextConcurrent ==
    \/ \E p \in AgentProcs, status \in AgentStatuses : BuildAgentState(p, status)
    \/ \E p \in AgentProcs : CallUpdateAgentState(p)
    \/ \E status \in ConcurrentStatuses : CallUpdateWorkflowStatus(status)

InitConcurrent ==
    /\ WfInit
    /\ rb = RetryOff
    /\ te = TransientOff
    /\ ts = TopicOff
    /\ sw = SweepOff
    /\ ah = ApprovalOff
    /\ tr = TriggerOff
    /\ ConcurrentInit
    /\ dd = DedupOff
    /\ cc = CheckerOff
    /\ hd = HandlerOff
    /\ he = AgentErrorOff

SpecConcurrent == InitConcurrent /\ [][NextConcurrent]_vars

(***************************************************************************)
(* The workflow run with a table whose writes can fail.  update_agent_state*)
(* and _update_workflow_status log and re-raise the exception of           *)
(* update_item (base_agent.py:209-211, manager_agent.py:335-337).  Each    *)
(* action below is a step of the run in which one write raises.            *)
(***************************************************************************)
\* _update_workflow_status before a stage raises (lines 123, 138, 155, 177)
StatusWriteFails ==
    /\ pc = "begin_stage"
    /\ failedAt' = stage
    /\ pc' = "exec_except"
    /\ UNCHANGED <<stage, item, statusLog, started, notifyLog, metricsLog, validation, checked,
                   result, rb, te, ts, extVars>>

\* update_agent_state("running"), the first statement of execute, raises;
\* the except clause of execute calls handle_error, whose
\* update_agent_state("failed") succeeds (handler_ok) or raises as well
RunningWriteFails(handler_ok) ==
    /\ pc = "begin_stage"
    /\ started' = started \cup {stage}
    /\ statusLog' = Append(statusLog, StageStatus[stage])
    /\ item' = LET it == UpdateWorkflowStatus(item, StageStatus[stage])
               IN IF handler_ok THEN UpdateAgentState(it, AgentName[stage], "failed") ELSE it
    /\ failedAt' = stage
    /\ pc' = "exec_except"
    /\ UNCHANGED <<stage, notifyLog, metricsLog, validation, checked, result, rb, te, ts, extVars>>

\* the last update_agent_state of execute raises: either the "completed"
\* write, after which handle_error writes "failed" (handler_ok) or raises as
\* well, or the "failed" write of handle_error after the stage's own error
FinalWriteOf == {"completed", "failed"}

AgentStateWriteFails(which, handler_ok) ==
    /\ pc = "in_stage"
    /\ item' = IF which = "completed" /\ handler_ok
               THEN UpdateAgentState(item, AgentName[stage], "failed")
               ELSE item
    /\ failedAt' = stage
    /\ pc' = "exec_except"
    /\ UNCHANGED <<stage, statusLog, started, notifyLog, metricsLog, validation, checked,
                   result, rb, te, ts, extVars>>

\* the stage completed; _update_workflow_status after it raises
\* (lines 133, 150, 167, 202-206)
DoneStatusWriteFails ==
    /\ pc = "in_stage"
    /\ item' = UpdateAgentState(item, AgentName[stage], "completed")
    /\ failedAt' = stage
    /\ pc' = "exec_except"
    /\ UNCHANGED <<stage, statusLog, started, notifyLog, metricsLog, validation, checked,
                   result, rb, te, ts, extVars>>

\* step 5: _send_approval_email returned; the write of EMAIL_SENT raises
EmailSentWriteFails(email) ==
    /\ pc = "send_email"
    /\ notifyLog' = Append(notifyLog, email = "sent")
    /\ item' = StoreApprovalToken(item, email)
    /\ pc' = "exec_except"
    /\ UNCHANGED <<stage, statusLog, started, metricsLog, failedAt, validation, checked,
                   result, rb, te, ts, extVars>>

\* except clause of _execute_workflow: the write of FAILED raises, and the
\* new exception leaves the clause
ExecuteExceptWriteFails(metrics) ==
    /\ pc = "exec_except"
    /\ metricsLog' = RecordMetrics(metricsLog, metrics)
    /\ pc' = "start_except"
    /\ UNCHANGED <<stage, item, statusLog, started, notifyLog, failedAt, validation, checked,
                   result, rb, te, ts, extVars>>

\* except clause of start_workflow: the write of FAILED raises
StartExceptWriteFails ==
    /\ pc = "start_except"
    /\ pc' = "raised"
    /\ UNCHANGED <<stage, item, statusLog, started, notifyLog, metricsLog, failedAt, validation,
                   checked, result, rb, te, ts, extVars>>

NextFault ==
    \/ StartWorkflow
    \/ \E ctor_ok \in BOOLEAN : BeginStage(ctor_ok)
    \/ \E o \in StageOutcome : EndStage(o)
    \/ \E o \in StageOutcome, outcomes \in VerdictSamples : EndChecker(o, outcomes)
    \/ \E email \in EmailOutcome : SendApprovalEmail(email)
    \/ \E stored \in BOOLEAN, metrics \in MetricsOutcome : StoreAndReturn(stored, metrics)
    \/ \E metrics \in MetricsOutcome : ExecuteExcept(metrics)
    \/ StartExcept
    \/ StatusWriteFails
    \/ \E handler_ok \in BOOLEAN : RunningWriteFails(handler_ok)
    \/ \E which \in FinalWriteOf, handler_ok \in BOOLEAN : AgentStateWriteFails(which, handler_ok)
    \/ DoneStatusWriteFails
    \/ \E email \in EmailOutcome : EmailSentWriteFails(email)
    \/ \E metrics \in MetricsOutcome : ExecuteExceptWriteFails(metrics)
    \/ StartExceptWriteFails

SpecFault == Init /\ [][NextFault]_vars

(***************************************************************************)
(* BaseAgent.safe_invoke_claude (base_agent.py:491-538): invoke_claude     *)
(* under retry_with_backoff with base_delay 2.0 and max_delay 30.0, and    *)
(* is_transient_error in the except clause.  Every failing call of the     *)
(* operation raises the same error, te.error.                              *)
(***************************************************************************)
\* errors raised by the operation: validation errors, a permanent error and
\* two transient ones
SafeInvokeErrors ==
    { [type |-> "ValueError", msg |-> Messages[7]],
      [type |-> "ValueError", msg |-> Messages[5]],
      [type |-> "KeyError", msg |-> Messages[6]],
      [type |-> "Exception", msg |-> Messages[8]],
      [type |-> "ConnectionError", msg |-> Messages[1]],
      [type |-> "Exception", msg |-> Messages[3]] }

\* the arguments safe_invoke_claude gives to retry_with_backoff; max_retries
\* is its own parameter (default 3)
SafeInvokeInit ==
    \E n \in 0..MaxRetries, e \in SafeInvokeErrors :
        /\ rb = [pc |-> "call",
                 max_retries |-> n, base_delay |-> 200, max_delay |-> 3000,
                 exponential_base |-> 2, jitter |-> TRUE,
                 attempt |-> 0,
                 calls |-> <<>>,
                 sleeps |-> <<>>,
                 last_exception |-> 0,
                 returned |-> 0,
                 raised |-> 0]
        /\ te = [pc |-> "ready", error |-> e, result |-> FALSE]

\* the except clause, lines 530-538: retry_with_backoff has raised; the
\* error is classified, logged when transient, and re-raised
SafeInvokeExcept ==
    /\ rb.pc = "raised"
    /\ te.pc = "ready"
    /\ te' = [te EXCEPT !.pc = "done", !.result = IsTransientError(te.error)]
    /\ UNCHANGED <<wfVars, rb, ts, extVars>>

NextSafeInvoke ==
    \/ \E ok \in BOOLEAN : RetryCall(ok)
    \/ RetrySleep
    \/ SafeInvokeExcept

InitSafeInvoke ==
    /\ WfInit
    /\ SafeInvokeInit
    /\ ts = TopicOff
    /\ ExtOff

SpecSafeInvoke == InitSafeInvoke /\ [][NextSafeInvoke]_vars

(***************************************************************************)
(* Successive workflows of ManagerAgent on one table: the topic selection  *)
(* of each workflow reads the history through _get_published_articles      *)
(* (topic_discovery_agent.py:282-313), the run stores the topic metadata   *)
(* through _store_article_data (manager_agent.py:469-507), and approvals   *)
(* and declines arrive at any time.  dd.table lists the records in the     *)
(* order of their creation.                                                *)
(***************************************************************************)
MaxWorkflows == 3

\* _get_published_articles: the records with status 'published', most
\* recent first (the Limit of 30 is above the number of records here)
RECURSIVE PublishedArticlesOf(_)
PublishedArticlesOf(table) ==
    IF table = <<>> THEN <<>>
    ELSE LET rest == PublishedArticlesOf(Tail(table))
             r == Head(table)
         IN IF r.status = PUBLISHED
            THEN Append(rest, [topic_title |-> r.topic_title,
                               topic_category |-> r.topic_category])
            ELSE rest

\* _select_unique_topic: the topics random.choice draws from
TopicChoices(published_articles) ==
    LET analysis == AnalyzeArticles(published_articles)
        published_titles == PublishedTitles(published_articles)
        filtered == AvailableTopics(published_titles)
        available_topics == IF filtered = {} THEN 1..BankSize ELSE filtered
        priority_categories ==
            analysis.gap_categories \cup analysis.underrepresented_categories
        priority_topics ==
            { i \in available_topics : TOPIC_BANK[i].category \in priority_categories }
    IN IF priority_topics # {} THEN priority_topics ELSE available_topics

\* the status a run of start_workflow leaves in its record
DedupFinalStatus == {EMAIL_SENT, REJECTED, FAILED}

DedupInit == dd = [pc |-> "ready", table |-> <<>>, selections |-> <<>>]

\* One run of start_workflow: the topic stage selects sel, the later stages
\* run, and the record ends with status final.  With EMAIL_SENT the token is
\* stored and _store_article_data writes article_data, topic_title and
\* topic_category (stored) or raises inside its try block (~stored).
DedupRun(sel, final, stored) ==
    /\ dd.pc = "ready"
    /\ Len(dd.table) < MaxWorkflows
    /\ sel \in TopicChoices(PublishedArticlesOf(dd.table))
    /\ LET persisted == final = EMAIL_SENT /\ stored
       IN dd' = [dd EXCEPT
            !.table = Append(@,
                [exists |-> TRUE,
                 status |-> final,
                 approval_token |-> (final = EMAIL_SENT),
                 article_data |-> persisted,
                 topic_title |-> IF persisted THEN TOPIC_BANK[sel].title ELSE EmptyTitle,
                 topic_category |->
                     IF persisted THEN TOPIC_BANK[sel].category ELSE UnknownCategory]),
            !.selections = Append(@,
                [title |-> TOPIC_BANK[sel].title,
                 status |-> final,
                 persisted |-> persisted])]
    /\ UNCHANGED <<wfVars, rb, te, ts, sw, ah, tr, cu, cc, hd, he>>

\* approval_handler, action approve with the token of record w: the article
\* is published and the status set to 'published'
DedupApprove(w) ==
    /\ dd.pc = "ready"
    /\ w \in 1..Len(dd.table)
    /\ TokenMatches(dd.table[w], "valid")
    /\ dd.table[w].article_data
    /\ dd' = [dd EXCEPT !.table[w] = SetPublished(@)]
    /\ UNCHANGED <<wfVars, rb, te, ts, sw, ah, tr, cu, cc, hd, he>>

\* approval_handler, action decline with the token of record w
DedupDecline(w) ==
    /\ dd.pc = "ready"
    /\ w \in 1..Len(dd.table)
    /\ TokenMatches(dd.table[w], "valid")
    /\ dd' = [dd EXCEPT !.table[w] = SetDeclined(@)]
    /\ UNCHANGED <<wfVars, rb, te, ts, sw, ah, tr, cu, cc, hd, he>>

NextDedup ==
    \/ \E sel \in 1..BankSize, final \in DedupFinalStatus, stored \in BOOLEAN :
          DedupRun(sel, final, stored)
    \/ \E w \in 1..MaxWorkflows : DedupApprove(w)
    \/ \E w \in 1..MaxWorkflows : DedupDecline(w)

InitDedup ==
    /\ WfInit
    /\ rb = RetryOff
    /\ te = TransientOff
    /\ ts = TopicOff
    /\ sw = SweepOff
    /\ ah = ApprovalOff
    /\ tr = TriggerOff
    /\ cu = ConcurrentOff
    /\ DedupInit
    /\ cc = CheckerOff
    /\ hd = HandlerOff
    /\ he = AgentErrorOff

SpecDedup == InitDedup /\ [][NextDedup]_vars

(***************************************************************************)
(* ContentCheckerAgent: the bodies of the checks                           *)
(* (content_checker_agent.py:106-327).  A text is the sequence of its      *)
(* characters; a key fact or a must-include item is the sequence of its    *)
(* words, as str.split() returns them.                                     *)
(***************************************************************************)
MaxFacts == 10

\* the text extracted from portable_text_body
ArticleText == <<"S", "u", "n", " ", "s", "e", "a">>

\* key facts / must-include items of the research report: a word of the
\* text in another casing, a part of a word of the text, a word of the text
\* in third place, a word of the text in fourth place, the empty string
SampleFacts ==
    { << <<"S", "E", "A">> >>,
      << <<"u", "n">> >>,
      << <<"z", "z">>, <<"z", "z">>, <<"s", "u", "n">> >>,
      << <<"z", "z">>, <<"z", "z">>, <<"z", "z">>, <<"s", "e", "a">> >>,
      << >> }

\* fact.lower().split()[:n]
LeadingWords(fact, n) == [i \in 1..Min(n, Len(fact)) |-> ToLower(fact[i])]

\* any(keyword in article_text.lower() for keyword in keywords)
AnyKeywordIn(keywords, article_text) ==
    \E i \in 1..Len(keywords) : Contains(ToLower(article_text), keywords[i])

\* the loop over the list: the number of entries with a keyword in the text
RECURSIVE CountFound(_, _, _)
CountFound(entries, n, article_text) ==
    IF entries = <<>> THEN 0
    ELSE (IF AnyKeywordIn(LeadingWords(Head(entries), n), article_text) THEN 1 ELSE 0)
         + CountFound(Tail(entries), n, article_text)

\* _check_factual_accuracy, the try body:
\* accuracy_rate = facts_found / max(len(key_facts), 1); passed = rate >= 0.7
CheckFactualAccuracy(article_text, key_facts) ==
    LET facts_found == CountFound(key_facts, 3, article_text)
        total == Len(key_facts)
    IN [passed |-> 10 * facts_found >= 7 * (IF total >= 1 THEN total ELSE 1),
        verified_facts |-> facts_found,
        total_facts |-> total]

\* _check_research_alignment, the try body:
\* coverage = items_found / max(len(must_include), 1); passed = coverage >= 0.8
CheckResearchAlignment(article_text, must_include) ==
    LET items_found == CountFound(must_include, 2, article_text)
        total == Len(must_include)
    IN [passed |-> 10 * items_found >= 8 * (IF total >= 1 THEN total ELSE 1),
        items_present |-> items_found,
        items_total |-> total]

\* VALIDATION_RULES (content_checker_agent.py:28-38); keyword density in
\* hundredths of a percent
VALIDATION_RULES ==
    [keyword_density |-> [min |-> 100, max |-> 300],
     meta_title |-> [min |-> 50, max |-> 60],
     meta_description |-> [min |-> 140, max |-> 160],
     internal_links |-> [min |-> 2, max |-> 5],
     images |-> [min |-> 3, max |-> 5]]

MaxKeywords == 3

\* article_text.lower().count(keyword.lower()) for the keywords 1..3 of the
\* keyword research, in a text of 100 words
KeywordCount == <<0, 2, 5>>

RECURSIVE SumOver(_, _)
SumOver(f, S) ==
    IF S = {} THEN 0
    ELSE LET x == CHOOSE y \in S : TRUE IN f[x] + SumOver(f, S \ {x})

\* keyword_density_results: a dict keyed by the keyword, filled for
\* primary_keywords[:2] when there are keywords and a text
KeywordDensityResults(primary_keywords, total_words) ==
    IF primary_keywords # <<>> /\ total_words > 0
    THEN LET top == {primary_keywords[i] : i \in 1..Min(2, Len(primary_keywords))}
         IN [k \in top |-> (KeywordCount[k] * 10000) \div total_words]
    ELSE << >>

\* avg_density = sum(values) / max(len(results), 1)
AvgDensity(results) ==
    LET n == Cardinality(DOMAIN results)
    IN SumOver(results, DOMAIN results) \div (IF n >= 1 THEN n ELSE 1)

InRange(rule, x) == VALIDATION_RULES[rule].min <= x /\ x <= VALIDATION_RULES[rule].max

\* the checks dict of _check_seo_compliance (lines 191-215)
SeoChecks(input) ==
    LET avg_density == AvgDensity(KeywordDensityResults(input.primary_keywords,
                                                         input.total_words))
    IN [keyword_density |->
            [value |-> avg_density,
             status |-> IF InRange("keyword_density", avg_density)
                        THEN "optimal" ELSE "needs_adjustment"],
        meta_title |->
            [length |-> input.seo_metadata.meta_title,
             status |-> IF InRange("meta_title", input.seo_metadata.meta_title)
                        THEN "good" ELSE "needs_adjustment"],
        meta_description |->
            [length |-> input.seo_metadata.meta_description,
             status |-> IF InRange("meta_description", input.seo_metadata.meta_description)
                        THEN "good" ELSE "needs_adjustment"],
        internal_links |->
            [count |-> input.internal_links,
             status |-> IF InRange("internal_links", input.internal_links)
                        THEN "good" ELSE "needs_more"],
        images |->
            [count |-> input.images,
             status |-> IF InRange("images", input.images) THEN "good" ELSE "needs_more"]]

SeoPassed_DensityGates(checks) ==
    /\ checks.keyword_density.status = "optimal"
    /\ checks.meta_title.status = "good"
    /\ checks.meta_description.status = "good"
    /\ checks.internal_links.count >= VALIDATION_RULES.internal_links.min
    /\ checks.images.count >= VALIDATION_RULES.images.min

\* lines 217-224: "Overall pass if no critical issues"
SeoPassed(checks) ==
    /\ checks.keyword_density.status # "over_optimized"
    /\ checks.meta_title.status = "good"
    /\ checks.meta_description.status = "good"
    /\ checks.internal_links.count >= VALIDATION_RULES.internal_links.min
    /\ checks.images.count >= VALIDATION_RULES.images.min

\* _check_seo_compliance: seo_metadata None (the key is there without a
\* value) raises in the try body and the except clause answers passed
CheckSeoCompliance(input) ==
    IF input.seo_metadata.is_none
    THEN [passed |-> TRUE, error |-> "AttributeError"]
    ELSE LET checks == SeoChecks(input)
         IN [passed |-> SeoPassed(checks)] @@ checks

\* the lengths and counts next to the limits of VALIDATION_RULES
SeoInputs ==
    [kind : {"seo_compliance"},
     seo_metadata : [is_none : {FALSE},
                     meta_title : {49, 50, 60, 61},
                     meta_description : {139, 140, 160, 161}]
                    \cup {[is_none |-> TRUE]},
     internal_links : {1, 2, 6},
     images : {2, 3, 6},
     primary_keywords : SeqsUpTo(1..Len(KeywordCount), MaxKeywords),
     total_words : {0, 100}]

\* lists of the research report: k entries of one kind, then entries of another
FactLists ==
    { [i \in 1..n |-> IF i <= k THEN a ELSE b] :
        <<n, k, a, b>> \in
            { t \in (0..MaxFacts) \X (0..MaxFacts) \X SampleFacts \X SampleFacts : t[2] <= t[1] } }

\* checks[name].get("accuracy_rate", 0) >= 0.9
AccuracyAtLeastNineTenths(check) ==
    /\ "verified_facts" \in DOMAIN check
    /\ 10 * check.verified_facts >= 9 * (IF check.total_facts >= 1 THEN check.total_facts ELSE 1)

\* seo_checks.get(name, {}).get("status")
SubStatus(seo_checks, name) ==
    IF name \in DOMAIN seo_checks THEN seo_checks[name].status ELSE "None"

\* _make_decision, lines 440-497: the feedback part of the returned tuple
MakeDecisionFeedback(checks, quality_score) ==
    LET factual == checks["factual_accuracy"]
        seo_checks == checks["seo_compliance"]
        strengths ==
            (IF AccuracyAtLeastNineTenths(factual)
             THEN <<"Excellent factual accuracy">> ELSE <<>>)
            \o (IF seo_checks.passed THEN <<"Strong SEO compliance">> ELSE <<>>)
            \o (IF checks["uniqueness"].passed THEN <<"Unique content angle">> ELSE <<>>)
            \o (IF quality_score >= 90 THEN <<"High overall quality">> ELSE <<>>)
        weaknesses ==
            (IF ~AccuracyAtLeastNineTenths(factual) /\ ~factual.passed
             THEN <<"Some key facts missing">> ELSE <<>>)
            \o (IF ~seo_checks.passed THEN <<"SEO needs optimization">> ELSE <<>>)
            \o (IF ~checks["uniqueness"].passed
                THEN <<"Too similar to recent articles">> ELSE <<>>)
        revisions ==
            (IF ~AccuracyAtLeastNineTenths(factual) /\ ~factual.passed
             THEN <<"Add missing facts from research">> ELSE <<>>)
            \o (IF ~seo_checks.passed
                   /\ SubStatus(seo_checks, "keyword_density") = "needs_adjustment"
                THEN <<"Adjust keyword density">> ELSE <<>>)
            \o (IF ~seo_checks.passed /\ SubStatus(seo_checks, "meta_title") # "good"
                THEN <<"Optimize meta title length">> ELSE <<>>)
            \o (IF ~checks["uniqueness"].passed
                THEN <<"Differentiate from recent content">> ELSE <<>>)
        status == MakeDecision(checks)
    IN IF status = "REJECTED"
       THEN [decision |-> "Article rejected due to critical issues",
             strengths |-> strengths, weaknesses |-> weaknesses, revisions |-> revisions]
       ELSE IF status = "NEEDS_REVISION"
       THEN [decision |-> "Article needs minor revisions",
             strengths |-> strengths, weaknesses |-> weaknesses, revisions |-> revisions]
       ELSE [decision |-> "Article approved for publication",
             strengths |-> strengths,
             weaknesses |-> IF weaknesses # <<>> THEN weaknesses ELSE <<"None identified">>,
             revisions |-> <<>>]

\* results of the five checks given to _make_decision: the factual and the
\* requirement check on lists with every, most, half or none of the entries
\* matched and on the empty list, the structural check next to its limits,
\* and the novelty and readability checks passed or failed
DecisionFactLists ==
    { [i \in 1..10 |-> IF i <= k THEN << <<"S", "E", "A">> >> ELSE << >>] : k \in {10, 8, 5, 0} }
        \cup { <<>> }

DecisionSeoInputs ==
    [kind : {"seo_compliance"},
     seo_metadata : [is_none : {FALSE}, meta_title : {50, 61}, meta_description : {140, 161}]
                    \cup {[is_none |-> TRUE]},
     internal_links : {1, 2, 6},
     images : {2, 3},
     primary_keywords : {<<2>>, <<3>>},
     total_words : {100}]

DecisionInputs ==
    [kind : {"decision"},
     checks : { [factual_accuracy |-> f, seo_compliance |-> s, research_alignment |-> r,
                 uniqueness |-> [passed |-> u], quality |-> [passed |-> q]] :
                <<f, s, r, u, q>> \in
                    { CheckFactualAccuracy(ArticleText, l) : l \in DecisionFactLists }
                    \X { CheckSeoCompliance(i) : i \in DecisionSeoInputs }
                    \X { CheckResearchAlignment(ArticleText, l) : l \in {<<>>, << << <<"S", "E", "A">> >> >>} }
                    \X BOOLEAN \X BOOLEAN }]

FactInputs ==
    [kind : {"factual_accuracy", "research_alignment"}, entries : FactLists]

CheckerInputs == FactInputs \cup SeoInputs \cup DecisionInputs

CheckerInit ==
    \E input \in CheckerInputs : cc = [pc |-> "ready", input |-> input, result |-> NoResult]

\* execute, line 67: self._check_factual_accuracy(article, research_report)
RunFactualAccuracy ==
    /\ cc.pc = "ready"
    /\ cc.input.kind = "factual_accuracy"
    /\ cc' = [cc EXCEPT !.pc = "done",
                        !.result = CheckFactualAccuracy(ArticleText, cc.input.entries)]
    /\ UNCHANGED <<wfVars, rb, te, ts, sw, ah, tr, cu, dd, hd, he>>

\* execute, line 69: self._check_research_alignment(article, research_report)
RunResearchAlignment ==
    /\ cc.pc = "ready"
    /\ cc.input.kind = "research_alignment"
    /\ cc' = [cc EXCEPT !.pc = "done",
                        !.result = CheckResearchAlignment(ArticleText, cc.input.entries)]
    /\ UNCHANGED <<wfVars, rb, te, ts, sw, ah, tr, cu, dd, hd, he>>

\* execute, line 68: self._check_seo_compliance(article, research_report)
RunSeoCompliance ==
    /\ cc.pc = "ready"
    /\ cc.input.kind = "seo_compliance"
    /\ cc' = [cc EXCEPT !.pc = "done", !.result = CheckSeoCompliance(cc.input)]
    /\ UNCHANGED <<wfVars, rb, te, ts, sw, ah, tr, cu, dd, hd, he>>

\* execute, lines 75-78: _calculate_quality_score, then _make_decision
RunMakeDecision ==
    /\ cc.pc = "ready"
    /\ cc.input.kind = "decision"
    /\ LET quality_score == CalculateQualityScore(cc.input.checks)
       IN cc' = [cc EXCEPT !.pc = "done",
                           !.result = [status |-> MakeDecision(cc.input.checks),
                                       quality_score |-> quality_score,
                                       feedback |-> MakeDecisionFeedback(cc.input.checks,
                                                                         quality_score)]]
    /\ UNCHANGED <<wfVars, rb, te, ts, sw, ah, tr, cu, dd, hd, he>>

NextChecker ==
    \/ RunFactualAccuracy
    \/ RunResearchAlignment
    \/ RunSeoCompliance
    \/ RunMakeDecision

InitChecker ==
    /\ WfInit
    /\ rb = RetryOff
    /\ te = TransientOff
    /\ ts = TopicOff
    /\ sw = SweepOff
    /\ ah = ApprovalOff
    /\ tr = TriggerOff
    /\ cu = ConcurrentOff
    /\ dd = DedupOff
    /\ CheckerInit
    /\ hd = HandlerOff
    /\ he = AgentErrorOff

SpecChecker == InitChecker /\ [][NextChecker]_vars

(***************************************************************************)
(* The novelty check: ManagerAgent._get_recent_articles                    *)
(* (manager_agent.py:434-467) and ContentCheckerAgent._check_uniqueness    *)
(* with _calculate_jaccard_similarity (content_checker_agent.py:279-327,   *)
(* 531-542).  A title is the sequence of its words, a word is [id, upper]: *)
(* id names the word up to letter case.  A similarity is the pair          *)
(* <<numerator, denominator>> of the quotient the code computes.           *)
(***************************************************************************)
MaxOtherRecords == 10
MaxPublished == 6
RecentLimit == 5

Word(i) == [id |-> i, upper |-> FALSE]
UpperWord(i) == [id |-> i, upper |-> TRUE]

\* set(text.lower().split())
TokenSet(title) == {[title[i] EXCEPT !.upper = FALSE] : i \in 1..Len(title)}

\* _calculate_jaccard_similarity: len(intersection) / max(len(union), 1)
CalculateJaccardSimilarity(text1, text2) ==
    LET words1 == TokenSet(text1)
        words2 == TokenSet(text2)
        union == Cardinality(words1 \cup words2)
    IN <<Cardinality(words1 \cap words2), IF union >= 1 THEN union ELSE 1>>

\* a < b for two quotients with positive denominators
QuotientLess(a, b) == a[1] * b[2] < b[1] * a[2]

\* max([s["score"] for s in similarity_scores])
RECURSIVE MaxScore(_)
MaxScore(scores) ==
    IF Len(scores) = 1 THEN scores[1]
    ELSE LET rest == MaxScore(Tail(scores))
         IN IF QuotientLess(Head(scores), rest) THEN rest ELSE Head(scores)

\* similarity_threshold of VALIDATION_RULES: 0.20
SimilarityThreshold == <<1, 5>>

\* _check_uniqueness, the try body
CheckUniqueness(article_title, recent_articles) ==
    IF recent_articles = <<>>
    THEN [passed |-> TRUE, similarity_scores |-> <<>>, max_similarity |-> <<0, 1>>]
    ELSE LET last5 == SubSeq(recent_articles, 1, Min(5, Len(recent_articles)))
             similarity_scores ==
                 [i \in 1..Len(last5) |->
                     CalculateJaccardSimilarity(article_title, last5[i].topic_title)]
             max_similarity == MaxScore(similarity_scores)
         IN [passed |-> QuotientLess(max_similarity, SimilarityThreshold),
             similarity_scores |-> similarity_scores,
             max_similarity |-> max_similarity]

\* articles.sort(key=created_at, reverse=True); the created_at values of the
\* records are distinct
RECURSIVE SortNewestFirst(_)
SortNewestFirst(articles) ==
    IF articles = <<>> THEN <<>>
    ELSE LET i == CHOOSE j \in 1..Len(articles) :
                      \A k \in 1..Len(articles) : articles[k].created_at <= articles[j].created_at
         IN <<articles[i]>> \o
            SortNewestFirst(SubSeq(articles, 1, i - 1) \o SubSeq(articles, i + 1, Len(articles)))

\* _get_recent_articles: scan(FilterExpression status = 'published',
\* Limit = limit * 2) reads the first limit * 2 items of the table in scan
\* order and returns those of them that match the filter; then the current
\* workflow is dropped, the rest sorted by created_at, newest first, and cut
\* to limit.  table: the items in scan order.
GetRecentArticles(table, workflow_id, limit) ==
    LET IsPublished(a) == a.status = PUBLISHED
        NotCurrent(a) == a.workflow_id # workflow_id
        evaluated == SubSeq(table, 1, Min(limit * 2, Len(table)))
        articles == SelectSeq(evaluated, IsPublished)
        sorted == SortNewestFirst(SelectSeq(articles, NotCurrent))
    IN SubSeq(sorted, 1, Min(limit, Len(sorted)))

\* the title of the new article
NewTitle == <<UpperWord(1), Word(2), Word(3), Word(1)>>

\* topic titles of published records: the words of the new title in another
\* order and casing, one word of three shared (1/5), one word of four shared
\* (1/6), no word shared, no title
RecentTitles ==
    { <<Word(3), UpperWord(2), Word(1)>>,
      <<Word(1), Word(4), Word(5)>>,
      <<Word(1), Word(4), Word(5), Word(6)>>,
      <<Word(7), Word(8)>>,
      << >> }

\* topic titles of the published records: k of one kind, then another kind
NoveltyTitleLists ==
    { [i \in 1..n |-> IF i <= k THEN x ELSE y] :
        <<n, k, x, y>> \in
            { t \in (0..MaxPublished) \X (0..MaxPublished) \X RecentTitles \X RecentTitles :
                t[2] <= t[1] } }

\* The table in scan order: the record of the current workflow (id 1, in
\* CHECKING), records of other workflows that are not published, then the
\* published ones.  newest_last: created_at grows or falls along the scan
\* order.
NoveltyTables ==
    { [i \in 1..(a + Len(titles)) |->
          IF i <= a
          THEN [workflow_id |-> i, status |-> IF i = 1 THEN CHECKING ELSE EMAIL_SENT,
                created_at |-> IF newest_last THEN i ELSE 100 - i,
                topic_title |-> NewTitle]
          ELSE [workflow_id |-> i, status |-> PUBLISHED,
                created_at |-> IF newest_last THEN i ELSE 100 - i,
                topic_title |-> titles[i - a]]] :
        <<a, titles, newest_last>> \in
            (1..(MaxOtherRecords + 1)) \X NoveltyTitleLists \X BOOLEAN }

NoveltyInit ==
    \E table \in NoveltyTables :
        cc = [pc |-> "ready",
              input |-> [kind |-> "uniqueness", title |-> NewTitle, table |-> table,
                         workflow_id |-> 1],
              recent_articles |-> <<>>,
              result |-> NoResult]

\* _execute_workflow, line 177: recent_articles = self._get_recent_articles(workflow_id)
FetchRecentArticles ==
    /\ cc.pc = "ready"
    /\ cc.input.kind = "uniqueness"
    /\ cc' = [cc EXCEPT !.pc = "fetched",
                        !.recent_articles =
                            GetRecentArticles(cc.input.table, cc.input.workflow_id, RecentLimit)]
    /\ UNCHANGED <<wfVars, rb, te, ts, sw, ah, tr, cu, dd, hd, he>>

\* execute, line 70: self._check_uniqueness(article, recent_articles)
RunUniqueness ==
    /\ cc.pc = "fetched"
    /\ cc' = [cc EXCEPT !.pc = "done",
                        !.result = CheckUniqueness(cc.input.title, cc.recent_articles)]
    /\ UNCHANGED <<wfVars, rb, te, ts, sw, ah, tr, cu, dd, hd, he>>

NextNovelty ==
    \/ FetchRecentArticles
    \/ RunUniqueness

InitNovelty ==
    /\ WfInit
    /\ rb = RetryOff
    /\ te = TransientOff
    /\ ts = TopicOff
    /\ sw = SweepOff
    /\ ah = ApprovalOff
    /\ tr = TriggerOff
    /\ cu = ConcurrentOff
    /\ dd = DedupOff
    /\ NoveltyInit
    /\ hd = HandlerOff
    /\ he = AgentErrorOff

SpecNovelty == InitNovelty /\ [][NextNovelty]_vars

(***************************************************************************)
(* multi_agent_handler.multi_agent_workflow_handler                        *)
(* (multi_agent_handler.py:16-131) around one run of                       *)
(* ManagerAgent.start_workflow.  A dict is a function on its keys.         *)
(***************************************************************************)
\* d.get(key, default)
Get(d, key, default) == IF key \in DOMAIN d THEN d[key] ELSE default

EmptyDict == << >>

\* the title and the word count of the writer's article in this run
WriterArticle == [title |-> "Article title", word_count |-> 3000]

\* The dict returned by _execute_workflow (manager_agent.py:209-214 and
\* 261-276) for the value of the run's result.
ExecuteWorkflowReturn(res) ==
    IF res.result.status = REJECTED
    THEN [workflow_id |-> "workflow-1",
          status |-> REJECTED,
          message |-> "Article rejected - quality issues found",
          validation |-> res.result.validation]
    ELSE [workflow_id |-> "workflow-1",
          status |-> res.result.status,
          message |-> "Phase 3 workflow completed successfully",
          article_preview |->
              [title |-> WriterArticle.title,
               word_count |-> WriterArticle.word_count,
               quality_score |-> res.result.validation.quality_score,
               validation_status |-> res.result.validation.status],
          validation |-> res.result.validation]

\* The dict returned by start_workflow (manager_agent.py:96-100).
StartWorkflowReturn(res) ==
    [workflow_id |-> "workflow-1",
     status |-> res.status,
     result |-> ExecuteWorkflowReturn(res)]

\* lines 52-114: the response built from the dict start_workflow returned;
\* the dict always carries a workflow_id
HandlerResponse(returned) ==
    LET workflow_status == Get(returned, "status", "unknown")
        article_preview == Get(returned, "article_preview", EmptyDict)
        validation_dict == Get(returned, "validation", EmptyDict)
        rejected == workflow_status = "rejected"
        body == [success |-> TRUE,
                 workflow_id |-> returned.workflow_id,
                 status |-> workflow_status,
                 quality_score |->
                     IF rejected THEN Get(validation_dict, "quality_score", 0)
                     ELSE Get(article_preview, "quality_score",
                              Get(validation_dict, "quality_score", 0)),
                 validation_status |->
                     IF rejected THEN Get(validation_dict, "status", "REJECTED")
                     ELSE Get(article_preview, "validation_status",
                              Get(validation_dict, "status", "unknown"))]
    IN [statusCode |-> 200,
        body |-> IF rejected THEN body
                 ELSE [topic |-> Get(article_preview, "title", "N/A"),
                       word_count |-> Get(article_preview, "word_count", 0)] @@ body]

HandlerInit == hd = [pc |-> "ready", response |-> [statusCode |-> 0]]

\* start_workflow returned: lines 48-114
HandlerRespond ==
    /\ pc = "returned"
    /\ hd.pc = "ready"
    /\ hd' = [hd EXCEPT !.pc = "done",
                        !.response = HandlerResponse(StartWorkflowReturn(result))]
    /\ UNCHANGED <<wfVars, rb, te, ts, sw, ah, tr, cu, dd, cc, he>>

\* start_workflow raised: the except clause, lines 116-131
HandlerExcept ==
    /\ pc = "raised"
    /\ hd.pc = "ready"
    /\ hd' = [hd EXCEPT !.pc = "done",
                        !.response = [statusCode |-> 500, body |-> [success |-> FALSE]]]
    /\ UNCHANGED <<wfVars, rb, te, ts, sw, ah, tr, cu, dd, cc, he>>

NextHandler ==
    \/ StartWorkflow
    \/ \E ctor_ok \in BOOLEAN : BeginStage(ctor_ok)
    \/ \E o \in StageOutcome : EndStage(o)
    \/ \E o \in StageOutcome, outcomes \in VerdictSamples : EndChecker(o, outcomes)
    \/ \E email \in EmailOutcome : SendApprovalEmail(email)
    \/ \E stored \in BOOLEAN, metrics \in MetricsOutcome : StoreAndReturn(stored, metrics)
    \/ \E metrics \in MetricsOutcome : ExecuteExcept(metrics)
    \/ StartExcept
    \/ HandlerRespond
    \/ HandlerExcept

InitHandler ==
    /\ WfInit
    /\ rb = RetryOff
    /\ te = TransientOff
    /\ ts = TopicOff
    /\ sw = SweepOff
    /\ ah = ApprovalOff
    /\ tr = TriggerOff
    /\ cu = ConcurrentOff
    /\ dd = DedupOff
    /\ cc = CheckerOff
    /\ HandlerInit
    /\ he = AgentErrorOff

SpecHandler == InitHandler /\ [][NextHandler]_vars

(***************************************************************************)
(* ManagerAgent.handle_agent_error (manager_agent.py:363-424) called by    *)
(* several invocations for one workflow record.  A call is two requests to *)
(* the table, get_item and update_item; the requests of different callers  *)
(* interleave.                                                             *)
(***************************************************************************)
NumCallers == 2
MaxErrorCalls == 2

Callers == 1..NumCallers

\* retry_count and max_retries of the item put by start_workflow (lines 84-85)
AgentErrorInit ==
    he = [record |-> [status |-> RESEARCHING, retry_count |-> 0, max_retries |-> 2],
          procs |-> [p \in Callers |->
                        [pc |-> "idle", retry_count |-> 0, max_retries |-> 0, calls |-> 0]],
          returns |-> <<>>]

\* lines 383-385: workflow = self.get_workflow_state(workflow_id) and the
\* two values read from it
AgentErrorRead(p) ==
    /\ he.procs[p].pc = "idle"
    /\ he.procs[p].calls < MaxErrorCalls
    /\ he' = [he EXCEPT !.procs[p] =
                [@ EXCEPT !.pc = "decide",
                          !.retry_count = he.record.retry_count,
                          !.max_retries = he.record.max_retries,
                          !.calls = @ + 1]]
    /\ UNCHANGED <<wfVars, rb, te, ts, sw, ah, tr, cu, dd, cc, hd>>

\* lines 398-422: SET retry_count = :count with the value read plus one and
\* return True, or FAILED and return False
AgentErrorDecide(p, retry) ==
    /\ he.procs[p].pc = "decide"
    /\ LET granted == retry /\ he.procs[p].retry_count < he.procs[p].max_retries
       IN he' = [he EXCEPT
                !.record = IF granted
                           THEN [@ EXCEPT !.retry_count = he.procs[p].retry_count + 1]
                           ELSE [@ EXCEPT !.status = FAILED],
                !.procs[p] = [@ EXCEPT !.pc = "idle"],
                !.returns = Append(@, granted)]
    /\ UNCHANGED <<wfVars, rb, te, ts, sw, ah, tr, cu, dd, cc, hd>>

NextAgentError ==
    \/ \E p \in Callers : AgentErrorRead(p)
    \/ \E p \in Callers, retry \in BOOLEAN : AgentErrorDecide(p, retry)

InitAgentError ==
    /\ WfInit
    /\ rb = RetryOff
    /\ te = TransientOff
    /\ ts = TopicOff
    /\ sw = SweepOff
    /\ ah = ApprovalOff
    /\ tr = TriggerOff
    /\ cu = ConcurrentOff
    /\ dd = DedupOff
    /\ cc = CheckerOff
    /\ hd = HandlerOff
    /\ AgentErrorInit

SpecAgentError == InitAgentError /\ [][NextAgentError]_vars

(***************************************************************************)
(* TopicDiscoveryAgent.execute (topic_discovery_agent.py:182-227) with a   *)
(* table whose scan and delete_item calls can raise: the sweep, then the   *)
(* rest of the stage.                                                      *)
(***************************************************************************)
\* execute, lines 199-222: after _cleanup_stale_workflows has returned, the
\* analysis and the topic selection run, the output is stored with the
\* agent state "completed" and the result is returned
TopicStageFinish ==
    /\ sw.pc = "done"
    /\ sw' = [stage |-> [status |-> "success",
                         agent_state |-> "completed",
                         cleanup_summary |-> sw.result,
                         selected_topic |-> TRUE]]
             @@ [sw EXCEPT !.pc = "completed"]
    /\ UNCHANGED <<wfVars, rb, te, ts, ah, tr, cu, dd, cc, hd, he>>

NextSweepFault ==
    \/ \E ok \in BOOLEAN : SweepScan(ok)
    \/ \E ok \in BOOLEAN : SweepDelete(ok)
    \/ SweepReturn
    \/ TopicStageFinish

SpecSweepFault == InitSweep /\ [][NextSweepFault]_vars

(***************************************************************************)
(* Properties of the workflow run and of the quality gate.                 *)
(***************************************************************************)
Done == pc \in {"returned", "raised"}
Passed(c) == validation.checks[c].passed
Verdicts == {"APPROVED", "NEEDS_REVISION", "REJECTED"}
TokenStored == item.exists /\ item.approval_token

\* C1 (as stated): when start_workflow returns or raises, the status of the
\* record is one of the terminal states REJECTED, PUBLISHED, DECLINED, FAILED.
C1_FinalStatusTerminal ==
    Done => item.status \in {REJECTED, PUBLISHED, DECLINED, FAILED}

\* C1 (amended): when start_workflow raises the status is FAILED; when it
\* returns the status is REJECTED (verdict REJECTED) or EMAIL_SENT (verdict
\* APPROVED or NEEDS_REVISION, whether or not the notification was sent).
C1_FinalStatus ==
    /\ pc = "raised" => item.status = FAILED
    /\ pc = "returned" =>
          /\ item.status \in {REJECTED, EMAIL_SENT}
          /\ (item.status = REJECTED) <=> (validation.status = "REJECTED")
          /\ (item.status = EMAIL_SENT) <=> (validation.status \in {"APPROVED", "NEEDS_REVISION"})

C1_Witness ==
    pc = "returned" /\ item.status = EMAIL_SENT /\ notifyLog = <<FALSE>>

\* C2: once a stage has raised or returned a non-success result, the run
\* only goes through the except clauses: no later stage is started, no
\* notification is attempted, no token is stored, and when start_workflow
\* has raised the status is FAILED and nothing was returned.
C2_StageFailureStops ==
    failedAt # 0 =>
        /\ pc \in {"exec_except", "start_except", "raised"}
        /\ started = 1..failedAt
        /\ notifyLog = <<>>
        /\ ~TokenStored
        /\ result = NoResult
        /\ pc = "raised" => item.status = FAILED

C2_Witness ==
    /\ pc = "raised"
    /\ failedAt = 2
    /\ item.agent_states["research"] = "completed"
    /\ item.status = FAILED

\* C3: a notification is attempted only after the checker completed with
\* verdict APPROVED or NEEDS_REVISION; with verdict REJECTED there is no
\* notification and no token, the status is REJECTED and stays so, and the
\* returned result carries the verdict.
C3_RejectedShortCircuits ==
    /\ (notifyLog # <<>> \/ TokenStored) =>
          /\ validation.status \in {"APPROVED", "NEEDS_REVISION"}
          /\ item.agent_states["content_checker"] = "completed"
    /\ validation.status = "REJECTED" =>
          /\ notifyLog = <<>>
          /\ ~TokenStored
          /\ item.status = REJECTED
          /\ pc = "returned"
          /\ result.result.status = REJECTED
          /\ result.result.validation = validation
          /\ result.result.validation.status = "REJECTED"

C3_Witness ==
    /\ pc = "returned"
    /\ validation.status = "REJECTED"
    /\ item.status = REJECTED
    /\ result.result.validation.checks["uniqueness"].passed = FALSE

\* C7: the weighted score is the sum of the weights 25/25/20/15/15
\* (hundredths) of exactly the passing checks, lies in [0,100], is 100 when
\* all five pass and 75 when only the factual check fails.
C7_WeightedScore ==
    validation # NoVerdict =>
        /\ validation.quality_score =
              (IF Passed("factual_accuracy") THEN 25 ELSE 0)
            + (IF Passed("seo_compliance") THEN 25 ELSE 0)
            + (IF Passed("research_alignment") THEN 20 ELSE 0)
            + (IF Passed("uniqueness") THEN 15 ELSE 0)
            + (IF Passed("quality") THEN 15 ELSE 0)
        /\ validation.quality_score \in 0..100
        /\ (\A c \in CheckNames : checked.outcomes[c] = "pass")
              => validation.quality_score = 100
        /\ (\A c \in CheckNames : (checked.outcomes[c] = "fail") <=> (c = "factual_accuracy"))
              => validation.quality_score = 75

C7_Witness ==
    /\ validation # NoVerdict
    /\ \A c \in CheckNames : (checked.outcomes[c] = "fail") <=> (c = "factual_accuracy")
    /\ validation.quality_score = 75

\* C8: REJECTED iff one of factual / requirement / novelty fails; otherwise
\* NEEDS_REVISION iff structural or readability fails; otherwise APPROVED;
\* hence APPROVED iff the score is 100.
C8_Decision ==
    validation # NoVerdict =>
        LET critFail == \E c \in {"factual_accuracy", "research_alignment", "uniqueness"} :
                            checked.outcomes[c] = "fail"
            minorFail == \E c \in {"seo_compliance", "quality"} : checked.outcomes[c] = "fail"
        IN /\ (validation.status = "REJECTED") <=> critFail
           /\ (validation.status = "NEEDS_REVISION") <=> (~critFail /\ minorFail)
           /\ (validation.status = "APPROVED") <=> (~critFail /\ ~minorFail)
           /\ (validation.status = "APPROVED") <=> (validation.quality_score = 100)

C8_Witness ==
    /\ validation.status = "NEEDS_REVISION"
    /\ checked.outcomes["quality"] = "fail"
    /\ checked.outcomes["seo_compliance"] = "pass"
    /\ validation.quality_score = 85

\* C9: an internal error in a check does not abort the evaluation: execute
\* still returns a verdict, the erroring check is reported with passed = TRUE
\* and an error annotation, and every other check reports its own outcome.
C9_CheckErrorTolerated ==
    (checked # NoChecked /\ checked.exec = "success") =>
        /\ validation.status \in Verdicts
        /\ failedAt = 0
        /\ item.agent_states["content_checker"] = "completed"
        /\ \A c \in CheckNames :
              IF checked.outcomes[c] = "error"
              THEN validation.checks[c].passed /\ validation.checks[c].error
              ELSE /\ validation.checks[c].passed = (checked.outcomes[c] = "pass")
                   /\ ~validation.checks[c].error

C9_Witness ==
    /\ checked # NoChecked
    /\ checked.exec = "success"
    /\ checked.outcomes["seo_compliance"] = "error"
    /\ checked.outcomes["quality"] = "fail"
    /\ validation.status = "NEEDS_REVISION"
    /\ validation.checks["seo_compliance"].error

(***************************************************************************)
(* Properties of retry_with_backoff.                                       *)
(***************************************************************************)
NumFailed == Cardinality({i \in 1..Len(rb.calls) : ~rb.calls[i]})

\* C4: if the operation fails on its first k-1 calls and succeeds on call k
\* (k <= N+1) it is called exactly k times and the result of call k is
\* returned; if it fails on every call it is called exactly N+1 times and the
\* exception of the last call is raised.
C4_RetryCallCount ==
    /\ Len(rb.calls) <= rb.max_retries + 1
    /\ \A i \in 1..(Len(rb.calls) - 1) : ~rb.calls[i]
    /\ rb.pc = "returned" =>
          /\ rb.calls[Len(rb.calls)]
          /\ rb.returned = Len(rb.calls)
          /\ rb.raised = 0
    /\ rb.pc = "raised" =>
          /\ Len(rb.calls) = rb.max_retries + 1
          /\ \A i \in 1..Len(rb.calls) : ~rb.calls[i]
          /\ rb.raised = rb.max_retries + 1
          /\ rb.returned = 0
    /\ (rb.pc \in {"call", "sleep"}) => (rb.raised = 0 /\ rb.returned = 0)
    /\ (rb.pc = "call" /\ Len(rb.calls) > 0) => Len(rb.calls) <= rb.max_retries

C4_Witness ==
    /\ rb.pc = "returned"
    /\ rb.max_retries = 3
    /\ rb.calls = <<FALSE, FALSE, TRUE>>
    /\ rb.returned = 3

C4_WitnessExhausted ==
    /\ rb.pc = "raised"
    /\ rb.max_retries = 2
    /\ rb.calls = <<FALSE, FALSE, FALSE>>

\* C5: one sleep after each failed attempt except the final one; the i-th
\* sleep (attempt i-1) lasts d = min(base_delay * exponential_base^(i-1),
\* max_delay) without jitter and between 0.75 d and 1.25 d with jitter.
C5_BackoffDelays ==
    /\ Len(rb.sleeps) <= rb.max_retries
    /\ Len(rb.sleeps) = NumFailed - (IF rb.pc \in {"sleep", "raised"} THEN 1 ELSE 0)
    /\ \A i \in 1..Len(rb.sleeps) :
          LET p == rb.base_delay * Pow(rb.exponential_base, i - 1)
              d == IF p < rb.max_delay THEN p ELSE rb.max_delay
          IN IF rb.jitter
             THEN 3 * d <= 4 * rb.sleeps[i] /\ 4 * rb.sleeps[i] <= 5 * d
             ELSE rb.sleeps[i] = d

C5_Witness ==
    /\ rb.pc = "raised"
    /\ rb.max_retries = 3
    /\ ~rb.jitter
    /\ rb.base_delay = 100 /\ rb.exponential_base = 2 /\ rb.max_delay = 300
    /\ rb.sleeps = <<100, 200, 300>>

C5_WitnessJitter ==
    /\ rb.jitter
    /\ Len(rb.sleeps) = 2
    /\ rb.sleeps[2] # Min(rb.base_delay * rb.exponential_base, rb.max_delay)

(***************************************************************************)
(* Properties of is_transient_error.                                       *)
(***************************************************************************)
\* The messages of Messages that contain one of the text patterns once
\* lower-cased (1, 2, 3, 4, 9, 10, 12 and 14).
PatternMessages == {Messages[i] : i \in {1, 2, 3, 4, 9, 10, 12, 14}}
Has503 == {Messages[i] : i \in {4, 14}}
NamedTransient == {"TimeoutError", "ConnectionError", "BrokenPipeError", "IncompleteRead"}

HistoryIds ==
    { ts.published_articles[i].topic_title.id : i \in 1..Len(ts.published_articles) } \ {0}

\* C10: the selected title matches no history title (case-insensitively)
\* whenever some bank title is absent from the history; only when every bank
\* title is in the history is the fallback taken and a repeated title
\* returned.
C10_UniqueUnlessExhausted ==
    ts.pc = "done" =>
        LET exhausted == (1..BankSize) \subseteq HistoryIds
        IN /\ ~exhausted => (ts.selected.title.id \notin HistoryIds /\ ~ts.fallback)
           /\ exhausted => (ts.selected.title.id \in HistoryIds /\ ts.fallback)
           /\ ts.selected.title.id \in 1..BankSize

C10_Witness ==
    /\ ts.pc = "done"
    /\ Len(ts.published_articles) = 2
    /\ ts.published_articles[1].topic_title = [id |-> 1, form |-> "UPPER"]
    /\ ts.published_articles[2].topic_title = [id |-> 2, form |-> "Title"]
    /\ ts.selected.title.id = 3
    /\ ~ts.fallback

C10_WitnessExhausted ==
    /\ ts.pc = "done"
    /\ (1..BankSize) \subseteq HistoryIds
    /\ ts.fallback
    /\ ts.selected.title.id \in HistoryIds

\* C11: the uniqueness_score of the returned topic is 1.0 exactly when the
\* selected title is absent from the history (letter case ignored) and 0.5
\* exactly when it is a forced repeat: the pool was exhausted, the fallback
\* to the whole bank was taken and the title is one of the history's.
C11_UniquenessScore ==
    ts.pc = "done" =>
        LET repeat == ts.selected.title.id \in HistoryIds
        IN /\ ts.selected.uniqueness_score \in {5, 10}
           /\ (ts.selected.uniqueness_score = 10) <=> ~repeat
           /\ (ts.selected.uniqueness_score = 5) <=> (repeat /\ ts.fallback)

C11_Witness ==
    /\ ts.pc = "done"
    /\ ts.fallback
    /\ ts.selected.title.id \in HistoryIds
    /\ ts.selected.uniqueness_score = 5
    /\ \E i \in 1..Len(ts.published_articles) :
          /\ ts.published_articles[i].topic_title.id = ts.selected.title.id
          /\ ts.published_articles[i].topic_title.form = "UPPER"

C11_WitnessFresh ==
    /\ ts.pc = "done"
    /\ ~ts.fallback
    /\ HistoryIds # {}
    /\ ts.selected.title.id \notin HistoryIds
    /\ ts.selected.uniqueness_score = 10

TerminalStates == {REJECTED, PUBLISHED, DECLINED, FAILED}

\* the documented graph
GraphEdges ==
    { <<INITIALIZED, DISCOVERING_TOPIC>>, <<DISCOVERING_TOPIC, TOPIC_SELECTED>>,
      <<TOPIC_SELECTED, RESEARCHING>>, <<RESEARCHING, RESEARCH_COMPLETE>>,
      <<RESEARCH_COMPLETE, WRITING>>, <<WRITING, DRAFT_COMPLETE>>,
      <<DRAFT_COMPLETE, CHECKING>>,
      <<CHECKING, APPROVED>>, <<CHECKING, NEEDS_REVISION>>, <<CHECKING, REJECTED>>,
      <<APPROVED, EMAIL_SENT>>, <<NEEDS_REVISION, EMAIL_SENT>>,
      <<EMAIL_SENT, PUBLISHED>>, <<EMAIL_SENT, DECLINED>> }
    \cup { <<s, FAILED>> : s \in WorkflowState \ TerminalStates }

\* C13: over every sequence of start_workflow, approve and decline, each
\* change of the record's status follows an edge of the documented graph; in
\* particular a status of REJECTED, PUBLISHED, DECLINED or FAILED never
\* changes again.
C13_StatusFollowsGraph ==
    \A i \in 1..(Len(statusLog) - 1) :
        statusLog[i] # statusLog[i + 1] => <<statusLog[i], statusLog[i + 1]>> \in GraphEdges

(***************************************************************************)
(* Properties of the best-effort side effects of the run.                  *)
(***************************************************************************)
\* C14: a failure of a best-effort side effect (the approval email, the
\* metrics, the storing of the final article data) never propagates: from
\* the notification step on, whatever these calls did, the run is not in an
\* except clause and has not raised, the status has advanced to EMAIL_SENT
\* and is not FAILED, and the run returns EMAIL_SENT; the run fails only
\* through a stage, before any notification was attempted.
C14_SideEffectFailuresSwallowed ==
    /\ notifyLog # <<>> =>
          /\ pc \in {"store_article", "returned"}
          /\ item.status = EMAIL_SENT
    /\ pc = "returned" /\ notifyLog # <<>> =>
          /\ result.status = "success"
          /\ result.result.status = EMAIL_SENT
    /\ (pc \in {"exec_except", "start_except", "raised"}
        \/ (item.exists /\ item.status = FAILED)) =>
          /\ failedAt \in Stages
          /\ notifyLog = <<>>

C14_Witness ==
    /\ pc = "returned"
    /\ notifyLog = <<FALSE>>
    /\ metricsLog = <<FALSE>>
    /\ ~item.article_data
    /\ item.status = EMAIL_SENT
    /\ result.result.status = EMAIL_SENT

(***************************************************************************)
(* Properties of the retry of a failed workflow attempt.                   *)
(***************************************************************************)
\* C15: a stage failure with retry_count below max_retries restarts the
\* attempt with retry_count incremented instead of marking the workflow
\* FAILED; the record is FAILED only when a stage failed with retry_count
\* equal to max_retries.
C15_FailedOnlyAfterRetries ==
    (item.exists /\ item.status = FAILED) =>
        /\ failedAt \in Stages
        /\ item.retry_count = item.max_retries

(***************************************************************************)
(* Properties of the triggers.                                             *)
(***************************************************************************)
\* C16: a trigger that arrives while the table holds another record with
\* status in_progress or awaiting_approval created within the last 10
\* minutes aborts with a conflict result: it creates no record and invokes
\* neither content generation nor notification.
C16_DuplicateTriggerAborts ==
    \A p \in Triggers :
        tr.procs[p].active_at_arrival =>
            /\ tr.procs[p].pc = "done"
            /\ tr.procs[p].response = 429
            /\ ~tr.procs[p].created
            /\ ~tr.procs[p].generated
            /\ ~tr.procs[p].notified

\* C20: any two invocations of start_workflow, also two that read the same
\* clock millisecond, create records with distinct workflow ids: the table
\* holds one record for each invocation that created one.
C20_DistinctWorkflowIds ==
    LET started_p == {p \in Triggers : tr.procs[p].kind = "manager" /\ tr.procs[p].created}
    IN /\ \A p, q \in started_p :
             p # q => tr.procs[p].workflow_id # tr.procs[q].workflow_id
       /\ Cardinality({r \in tr.table : r.workflow_id.prefix = "workflow-"})
             = Cardinality(started_p)

(***************************************************************************)
(* Properties of concurrent updates of one record.                         *)
(***************************************************************************)
\* C17: in every interleaving of two update_agent_state callers with
\* different agent names and of a concurrent status update, no write
\* clobbers another's field: the record holds, for each agent, the state
\* that agent wrote last, and the status written last; the entries of the
\* other agent names are untouched.
C17_NoClobbering ==
    /\ \A p \in AgentProcs :
          cu.item.agent_states[ConcurrentAgentName[p]] =
              IF cu.written[p] = "none" THEN "absent" ELSE cu.written[p]
    /\ cu.item.status =
          IF cu.written[ManagerProc] = "none" THEN INITIALIZED ELSE cu.written[ManagerProc]
    /\ \A n \in DOMAIN cu.item.agent_states :
          n \notin {ConcurrentAgentName[p] : p \in AgentProcs} =>
              cu.item.agent_states[n] = "absent"

C17_Witness ==
    /\ \A p \in AgentProcs \cup {ManagerProc} : cu.calls[p] = MaxUpdates
    /\ cu.item.agent_states["research"] = "completed"
    /\ cu.item.agent_states["writer"] = "failed"
    /\ cu.item.status = FAILED
    /\ cu.item.updated_at = 1

(***************************************************************************)
(* Properties of the approval endpoint.                                    *)
(***************************************************************************)
\* the last request was turned away: no token or no action, a token that no
\* record holds, or an action that is neither approve nor decline
Refused ==
    \/ ah.last.token # "valid"
    \/ ~(ah.last.before.exists /\ ah.last.before.approval_token)
    \/ ah.last.action \notin {"approve", "decline"}

PublishOnlyOnApprove ==
    /\ ah.publish_calls <= ah.requests
    /\ ah.last.handled /\ ah.last.published =>
          /\ ah.last.action = "approve"
          /\ ah.last.token = "valid"
          /\ ah.last.before.exists
          /\ ah.last.before.approval_token

\* C18 as stated: publish is invoked only by an approve request whose token
\* is the approval_token of an existing record, never by the run itself, by
\* a decline, by a request with a missing or unknown token or by an invalid
\* action, and a decline or a refused request leaves the record unchanged.
C18_AsStated ==
    /\ PublishOnlyOnApprove
    /\ ah.last.handled /\ (Refused \/ ah.last.action = "decline") =>
          /\ ~ah.last.published
          /\ ah.last.after = ah.last.before

\* C18, amended: as above, but only refused requests leave the record
\* unchanged; a decline carrying the record's token publishes nothing and
\* changes the status of the record to DECLINED, and nothing else.
C18_PublishOnlyOnApprove ==
    /\ PublishOnlyOnApprove
    /\ ah.last.handled /\ Refused =>
          /\ ~ah.last.published
          /\ ah.last.after = ah.last.before
          /\ ah.last.statusCode \in {400, 404}
    /\ ah.last.handled /\ ~Refused /\ ah.last.action = "decline" =>
          /\ ~ah.last.published
          /\ ah.last.after = [ah.last.before EXCEPT !.status = DECLINED]

C18_Witness ==
    /\ ah.requests = 2
    /\ ah.publish_calls = 1
    /\ ah.last.action = "approve"
    /\ ah.last.token = "valid"
    /\ ah.last.published
    /\ ah.last.before.status = EMAIL_SENT
    /\ ah.last.after.status = PUBLISHED

C18_WitnessRefused ==
    /\ ah.last.handled
    /\ ah.last.token = "unknown"
    /\ ah.last.action = "approve"
    /\ ah.last.before.exists
    /\ ah.last.before.approval_token
    /\ ah.last.before.article_data
    /\ ah.last.statusCode = 404

(***************************************************************************)
(* Properties of the run when writes to the table fail.                    *)
(***************************************************************************)
\* C19: after any escalated error (a stage raising, or a store write
\* failing), once start_workflow has raised the record is in a terminal
\* state: its status is FAILED and no entry of agent_states is "running".
C19_RaisedMeansTerminal ==
    pc = "raised" =>
        /\ item.status = FAILED
        /\ \A n \in DOMAIN item.agent_states : item.agent_states[n] # "running"

(***************************************************************************)
(* Properties of the entries of agent_states during one run.               *)
(***************************************************************************)
\* update_agent_state replaces the whole entry of the agent, and the calls
\* with status "completed" are the ones that pass the stage's output
\* (a non-empty dict): the entry holds an output exactly when its status is
\* "completed"
OutputPersisted(n) == item.agent_states[n] = "completed"

RunningAgents == {n \in DOMAIN item.agent_states : item.agent_states[n] = "running"}

\* C21: within one run the stages execute strictly in sequence: at most one
\* entry of agent_states is "running" at any time, and the entry of stage
\* k+1 is written ("running" or later) only when the entry of stage k is
\* "completed" with its output in the record.
C21_StagesSequential ==
    item.exists =>
        /\ Cardinality(RunningAgents) <= 1
        /\ \A k \in 1..(NumStages - 1) :
              item.agent_states[AgentName[k + 1]] # "absent" =>
                  /\ item.agent_states[AgentName[k]] = "completed"
                  /\ OutputPersisted(AgentName[k])
        /\ pc = "in_stage" => RunningAgents = {AgentName[stage]}

C21_Witness ==
    /\ pc = "in_stage"
    /\ stage = 3
    /\ item.agent_states["writer"] = "running"
    /\ item.agent_states["research"] = "completed"
    /\ item.agent_states["topic_discovery"] = "completed"
    /\ item.agent_states["content_checker"] = "absent"

TerminalAgentStatuses == {"completed", "failed"}

\* C22: once the entry of a stage in agent_states is "completed" or "failed",
\* no later step of the run changes it: it does not go back to "running" and
\* does not switch between "completed" and "failed".
C22_TerminalEntriesFrozen ==
    [][item.exists =>
          \A n \in DOMAIN item.agent_states :
              item.agent_states[n] \in TerminalAgentStatuses =>
                  item'.agent_states[n] = item.agent_states[n]]_vars

C22_Witness ==
    /\ pc = "raised"
    /\ failedAt = 3
    /\ item.status = FAILED
    /\ item.agent_states["topic_discovery"] = "completed"
    /\ item.agent_states["research"] = "completed"
    /\ item.agent_states["writer"] = "failed"

(***************************************************************************)
(* Properties of the writes to a record after its creation.                *)
(***************************************************************************)
\* C23: after a record is created no operation replaces the whole record:
\* every later write keeps all the attributes of the record that it does
\* not name, so the record under a given workflow_id never loses an
\* attribute.
C23_NoWholeRecordReplace ==
    [][\A r \in tr.table : \A q \in tr'.table :
          q.workflow_id = r.workflow_id => r.fields \subseteq q.fields]_vars

(***************************************************************************)
(* Properties of safe_invoke_claude.                                       *)
(***************************************************************************)
\* C24: when the operation given to safe_invoke_claude raises an error that
\* is_transient_error classifies as non-transient, the operation is invoked
\* exactly once and the error is escalated at once, without a retry and
\* without a backoff sleep.
C24_NonTransientNotRetried ==
    (/\ te.pc \in {"ready", "done"}
     /\ ~IsTransientError(te.error)
     /\ rb.calls # <<>>
     /\ ~rb.calls[1]) =>
        /\ rb.pc = "raised"
        /\ Len(rb.calls) = 1
        /\ rb.sleeps = <<>>

(***************************************************************************)
(* Properties of the error categories of is_transient_error.               *)
(***************************************************************************)
\* the error classes of the categories timeout, connection-reset,
\* broken-pipe and truncated-read
CategoryErrorTypes ==
    {"TimeoutError", "ConnectionResetError", "BrokenPipeError", "IncompleteRead"}

\* C25: every error of one of the categories timeout, connection-reset,
\* broken-pipe or truncated-read is classified transient whatever its
\* message; in particular a ConnectionResetError whose message holds none of
\* the text patterns is transient.
C25_CategoriesTransient ==
    (te.pc = "done" /\ te.error.type \in CategoryErrorTypes) => te.result

(***************************************************************************)
(* Properties of the failure record.                                       *)
(***************************************************************************)
\* The writes that carry an error message are the update_agent_state calls
\* of handle_error (status "failed", error = the message); the status writes
\* of the manager carry the status and updated_at only.  The record holds an
\* error message exactly when an entry of agent_states is "failed".
ErrorPersisted ==
    \E n \in DOMAIN item.agent_states : item.agent_states[n] = "failed"

\* C26: whenever the status of the record is FAILED, an error message that
\* describes the failure is persisted in the record, whatever the cause: a
\* stage raising inside execute, a stage returning a non-success result, a
\* stage failing to construct, or an error of the orchestrator between
\* stages.
C26_FailedHasErrorMessage ==
    (item.exists /\ item.status = FAILED) => ErrorPersisted

(***************************************************************************)
(* Properties of the sweep over the records of ManagerAgent.               *)
(***************************************************************************)
\* the record of a workflow of ManagerAgent that went through the
\* approval-notification step and got neither approve nor decline: its
\* status is the last one the run wrote, EMAIL_SENT (C1_FinalStatus)
LeftAtNotification(rec) == rec.exists /\ rec.status = EMAIL_SENT

\* C27: a workflow of ManagerAgent that reached the notification step and
\* received neither approve nor decline is deleted by the first sweep that
\* runs more than 24h after its creation.
C27_UnansweredWorkflowSwept ==
    sw.pc = "done" =>
        \A i \in 1..MaxRecords :
            (LeftAtNotification(sw.before[i])
             /\ sw.before[i].created_at < sw.now - 24 * 3600) =>
                sw.table[i] = NoRecord

(***************************************************************************)
(* Properties of the topic selection over successive workflows.            *)
(***************************************************************************)
\* the titles selected by the workflows before workflow j
SelectedBefore(j) == {dd.selections[i].title : i \in 1..(j - 1)}

\* C28: after a workflow has succeeded (reached EMAIL_SENT) and its topic
\* metadata is persisted, the topic selection of a later workflow does not
\* return the same title as long as some title of the bank has never been
\* selected.
C28_NoRepeatAfterSuccess ==
    \A j \in 1..Len(dd.selections) :
        (\E i \in 1..BankSize : TOPIC_BANK[i].title \notin SelectedBefore(j)) =>
            \A i \in 1..(j - 1) :
                dd.selections[i].persisted =>
                    dd.selections[j].title # dd.selections[i].title

(***************************************************************************)
(* Properties of the category preference of the topic selection.           *)
(***************************************************************************)
\* number of history articles of category c
ChosenCount(c) ==
    Cardinality({i \in 1..Len(ts.published_articles) :
                    ts.published_articles[i].topic_category = c})

\* gapCategories \cup underrepresented: the categories of the bank chosen
\* never or once in the history
PreferredCategories ==
    {c \in {TOPIC_BANK[i].category : i \in 1..BankSize} : ChosenCount(c) <= 1}

\* the candidate pool after the history's titles are filtered out
FilteredPool == {i \in 1..BankSize : TOPIC_BANK[i].title.id \notin HistoryIds}

PreferredInPool == {i \in FilteredPool : TOPIC_BANK[i].category \in PreferredCategories}

\* C29: whenever the filtered candidate pool holds a topic whose category
\* was chosen never or at most once in the history, the selected topic is
\* such a topic of the pool; only when the non-empty pool holds none is the
\* topic drawn from the whole filtered pool.
C29_PrefersGapCategories ==
    ts.pc = "done" =>
        /\ PreferredInPool # {} =>
              /\ ts.selected.category \in PreferredCategories
              /\ ts.selected.title.id \in PreferredInPool
              /\ ts.from_priority
        /\ (FilteredPool # {} /\ PreferredInPool = {}) =>
              /\ ts.selected.title.id \in FilteredPool
              /\ ~ts.from_priority

C29_Witness ==
    /\ ts.pc = "done"
    /\ Len(ts.published_articles) = 3
    /\ FilteredPool = {2, 3}
    /\ ChosenCount(1) = 1
    /\ ChosenCount(2) = 2
    /\ PreferredInPool = {3}
    /\ ts.selected.title.id = 3

C29_WitnessWholePool ==
    /\ ts.pc = "done"
    /\ FilteredPool # {}
    /\ PreferredInPool = {}
    /\ ~ts.from_priority
    /\ ts.selected.title.id \in FilteredPool

(***************************************************************************)
(* Properties of concurrent manual triggers.                               *)
(***************************************************************************)
ManualTriggers == {p \in Triggers : tr.procs[p].kind = "manual"}

\* C30: the duplicate pre-check is a scan followed, in a later step, by an
\* unconditional write, so two concurrent triggers can both pass it.  A
\* trigger answers with the conflict result exactly when its own scan found
\* an active record; a trigger whose scan found none creates its in_progress
\* record and runs content generation whatever was written after its scan.
\* The witness is the interleaving in which both scans come before both
\* writes.
C30_PreCheckIsScanOnly ==
    \A p \in ManualTriggers :
        /\ tr.procs[p].response = 429 <=> tr.procs[p].active_at_arrival
        /\ tr.procs[p].response = 429 =>
              ~tr.procs[p].created /\ ~tr.procs[p].generated
        /\ (~tr.procs[p].active_at_arrival /\ tr.procs[p].pc \in {"generate", "notify"}) =>
              tr.procs[p].created
        /\ (tr.procs[p].pc = "done" /\ tr.procs[p].response \notin {429, 404}) =>
              tr.procs[p].created /\ tr.procs[p].generated

\* Both triggers ran inside one duplicate window, so every record written
\* was active for every later scan: both scans found nothing, hence came
\* before both writes, and both triggers created an in_progress record and
\* ran content generation.
C30_Witness ==
    /\ tr.clock - StartClock < DuplicateWindowMs
    /\ ManualTriggers = {1, 2}
    /\ \A p \in {1, 2} :
          /\ ~tr.procs[p].active_at_arrival
          /\ tr.procs[p].created
          /\ tr.procs[p].generated
          /\ tr.procs[p].pc = "notify"
    /\ Cardinality({r \in tr.table : r.status = "in_progress"}) = 2

(***************************************************************************)
(* Properties of the record of a manual trigger.                           *)
(***************************************************************************)
\* every manual invocation that uses this workflow_id has returned
ManualReturned(workflow_id) ==
    \A q \in ManualTriggers :
        tr.procs[q].workflow_id = workflow_id => tr.procs[q].pc = "done"

\* C31: every record that manual_trigger_handler creates with status
\* in_progress leaves that status: once every invocation that wrote the
\* record has returned, whether content generation, image sourcing and the
\* notification step succeeded or failed, the record is not in_progress.
C31_InProgressIsLeft ==
    \A p \in ManualTriggers :
        (tr.procs[p].created /\ ManualReturned(tr.procs[p].workflow_id))
            => \A r \in tr.table :
                   r.workflow_id = tr.procs[p].workflow_id => r.status # "in_progress"

(***************************************************************************)
(* Properties of the checks of ContentCheckerAgent.                        *)
(***************************************************************************)
\* the entries of a list matched in the body, counted over the positions
MatchedIn(entries, n) ==
    Cardinality({i \in 1..Len(entries) :
                    AnyKeywordIn(LeadingWords(entries[i], n), ArticleText)})

\* C32: the factual-coverage check passes exactly when the number of key
\* facts matched in the body is at least 0.70 of the number of key facts,
\* and the requirement-coverage check passes exactly when the number of
\* must-include items matched is at least 0.80 of the number of items, for
\* every list, the empty list included.
C32_CoverageThresholds ==
    cc.pc = "done" =>
        /\ cc.input.kind = "factual_accuracy" =>
              (cc.result.passed <=>
                  10 * MatchedIn(cc.input.entries, 3) >= 7 * Len(cc.input.entries))
        /\ cc.input.kind = "research_alignment" =>
              (cc.result.passed <=>
                  10 * MatchedIn(cc.input.entries, 2) >= 8 * Len(cc.input.entries))

PublishedOthers(table, workflow_id) ==
    {table[i] : i \in {j \in 1..Len(table) :
                          table[j].status = PUBLISHED /\ table[j].workflow_id # workflow_id}}

\* the up-to-5 most recently created of them
MostRecentPublished(table, workflow_id) ==
    LET published == PublishedOthers(table, workflow_id)
    IN {r \in published :
           Cardinality({q \in published : q.created_at > r.created_at}) < 5}

\* the token-set Jaccard similarity of two titles is strictly below 0.20
JaccardBelowFifth(title1, title2) ==
    5 * Cardinality(TokenSet(title1) \cap TokenSet(title2))
        < Cardinality(TokenSet(title1) \cup TokenSet(title2))

\* C34: the novelty check passes iff the maximum token-set Jaccard
\* similarity between the new title and each of the up-to-5 most recently
\* created published titles (other than the current workflow) is strictly
\* below 0.20; with no recent titles it passes with similarity 0.0, and a
\* title whose token set equals a recent title's fails.
C34_NoveltyRule ==
    (cc.pc = "done" /\ cc.input.kind = "uniqueness") =>
        LET recent == MostRecentPublished(cc.input.table, cc.input.workflow_id)
        IN /\ cc.result.passed <=>
                  \A r \in recent : JaccardBelowFifth(cc.input.title, r.topic_title)
           /\ recent = {} => cc.result.max_similarity = <<0, 1>>

(***************************************************************************)
(* Properties of the feedback of a verdict.                                *)
(***************************************************************************)
\* the criteria and sub-checks of a verdict
Criteria ==
    CheckNames \cup {"keyword_density", "meta_title", "meta_description",
                     "internal_links", "images"}

SeoSubChecks ==
    {"keyword_density", "meta_title", "meta_description", "internal_links", "images"}

\* a criterion or sub-check of these check results failed
Failing(checks, c) ==
    IF c \in CheckNames THEN ~checks[c].passed
    ELSE /\ c \in DOMAIN checks["seo_compliance"]
         /\ checks["seo_compliance"][c].status \notin {"optimal", "good"}

\* the check whose test guards the append of each feedback string in
\* _make_decision
DirectiveOf ==
    [d \in {"Some key facts missing", "Add missing facts from research",
            "SEO needs optimization", "Adjust keyword density",
            "Optimize meta title length", "Too similar to recent articles",
            "Differentiate from recent content"} |->
        CASE d \in {"Some key facts missing", "Add missing facts from research"}
                 -> "factual_accuracy"
          [] d = "SEO needs optimization" -> "seo_compliance"
          [] d = "Adjust keyword density" -> "keyword_density"
          [] d = "Optimize meta title length" -> "meta_title"
          [] OTHER -> "uniqueness"]

\* the directives of a feedback: its weaknesses and revisions
Directives(feedback) ==
    ({feedback.weaknesses[i] : i \in 1..Len(feedback.weaknesses)}
        \cup {feedback.revisions[i] : i \in 1..Len(feedback.revisions)})
    \ {"None identified"}

\* C35: in every verdict each failing criterion or sub-check (factual,
\* structural with keyword density, meta title, meta description, links and
\* media, requirement, novelty, readability) has its own directive in the
\* feedback (weaknesses or revisions), and no directive appears for a check
\* that passed.
C35_FeedbackOneToOne ==
    (cc.pc = "done" /\ cc.input.kind = "decision") =>
        LET directives == Directives(cc.result.feedback)
        IN /\ \A c \in Criteria :
                  Failing(cc.input.checks, c) =>
                      \E d \in directives : d \in DOMAIN DirectiveOf /\ DirectiveOf[d] = c
           /\ \A d \in directives :
                  d \in DOMAIN DirectiveOf /\ Failing(cc.input.checks, DirectiveOf[d])

(***************************************************************************)
(* Properties of the response of multi_agent_workflow_handler.             *)
(***************************************************************************)
\* C36: for a workflow whose verdict is REJECTED the response reports status
\* "rejected", takes quality_score and validation_status from the verdict
\* and omits topic and word_count; for a non-rejected workflow it reports
\* the workflow's status and the article's topic, word count and quality
\* score.
C36_HandlerResponse ==
    (hd.pc = "done" /\ pc = "returned") =>
        LET body == hd.response.body
        IN IF validation.status = "REJECTED"
           THEN /\ body.status = "rejected"
                /\ body.quality_score = validation.quality_score
                /\ body.validation_status = validation.status
                /\ "topic" \notin DOMAIN body
                /\ "word_count" \notin DOMAIN body
           ELSE /\ body.status = result.result.status
                /\ "topic" \in DOMAIN body /\ body.topic = WriterArticle.title
                /\ "word_count" \in DOMAIN body /\ body.word_count = WriterArticle.word_count
                /\ body.quality_score = validation.quality_score

(***************************************************************************)
(* Properties of handle_agent_error.                                       *)
(***************************************************************************)
\* the number of calls so far that returned True
RetriesGranted == Cardinality({i \in 1..Len(he.returns) : he.returns[i]})

\* C37: over the lifetime of one workflow, concurrent calls of
\* handle_agent_error on the same record included, retry_count never
\* exceeds max_retries and the number of calls that grant a retry (return
\* True) never exceeds max_retries.
C37_RetriesBounded ==
    /\ he.record.retry_count <= he.record.max_retries
    /\ RetriesGranted <= he.record.max_retries

(***************************************************************************)
(* Properties of the article data behind an approval token.                *)
(***************************************************************************)
\* C38: whenever the record holds an approval token a recipient can act on
\* (the token is stored and the notification was sent), the record's
\* article_data is already persisted, so an approve request for a workflow
\* that reached EMAIL_SENT never fails for lack of article data.
C38_ArticleDataBeforeToken ==
    /\ (/\ item.exists
        /\ item.approval_token
        /\ notifyLog # <<>>
        /\ notifyLog[Len(notifyLog)])
       => item.article_data
    /\ (/\ ah.last.handled
        /\ ah.last.action = "approve"
        /\ TokenMatches(ah.last.before, ah.last.token)
        /\ ah.last.before.status = EMAIL_SENT)
       => ah.last.before.article_data

(***************************************************************************)
(* Properties of the number of publications of one workflow.               *)
(***************************************************************************)
\* C39: for each workflow publish_to_sanity is invoked at most once over any
\* sequence of approve / decline requests carrying its token: a second
\* approve, or an approve after a decline, does not publish.
C39_PublishAtMostOnce ==
    /\ ah.publish_calls <= 1
    /\ (ah.last.handled /\ ah.last.published)
           => ah.last.before.status \notin {PUBLISHED, DECLINED}

(***************************************************************************)
(* Properties of the sweep with a failing table.                           *)
(***************************************************************************)
\* the records of the table that the sweep has deleted
ActuallyDeleted ==
    {i \in 1..MaxRecords : sw.before[i].exists /\ ~sw.table[i].exists}

\* C40: a failure of the stale-workflow sweep (its scan or any single delete
\* failing) never fails the topic-discovery stage: the sweep returns and
\* reports the number of records actually deleted, every turn of its loop,
\* failed or not, goes on to the remaining stale records, and the stage then
\* runs topic selection and completes with the sweep's summary.
C40_SweepFailureContained ==
    /\ [](/\ sw.pc \in {"scan", "delete", "done", "completed"}
          /\ sw.pc \in {"done", "completed"} =>
                /\ sw.result.returned
                /\ sw.result.deleted_workflows = Cardinality(ActuallyDeleted)
          /\ sw.pc = "completed" =>
                /\ sw.stage.status = "success"
                /\ sw.stage.agent_state = "completed"
                /\ sw.stage.selected_topic
                /\ sw.stage.cleanup_summary = sw.result)
    /\ [][(sw.pc = "delete" /\ sw.stale_workflows # <<>>) =>
              (sw'.pc = "delete" /\ sw'.stale_workflows = Tail(sw.stale_workflows))]_vars

\* the stage completed after a sweep in which the delete of one stale record
\* failed and the delete of a later one succeeded
C40_Witness ==
    /\ sw.pc = "completed"
    /\ sw.stage.status = "success"
    /\ sw.result.deleted_workflows = 1
    /\ \E i, j \in 1..MaxRecords :
          /\ i < j
          /\ IsStale(sw.before[i], CutoffTime(sw.now)) /\ sw.table[i].exists
          /\ IsStale(sw.before[j], CutoffTime(sw.now)) /\ ~sw.table[j].exists

\* the stage completed after a sweep whose scan failed
C40_WitnessScanFailed ==
    /\ sw.pc = "completed"
    /\ sw.stage.status = "success"
    /\ sw.result.error
    /\ \E i \in 1..MaxRecords : IsStale(sw.table[i], CutoffTime(sw.now))

====
